---- MODULE Spec2Model ----
(***************************************************************************)
(* Task / timer / alarm state model of ProductivityApp (src/Productivity.py)*)
(*                                                                         *)
(* Time is counted in ticks of 1/TicksPerSecond second: time.time(), the   *)
(* timer and start_time_unix fields and alarm targets are floats in the    *)
(* source and fixed-point numbers here, so that int() in format_timedelta  *)
(* truncates.  Task indexes are 0-based as in the source; the sequence     *)
(* `tasks` is 1-based, hence tasks[index + 1].                             *)
(***************************************************************************)
EXTENDS Integers, Sequences, FiniteSets, TLC

VARIABLES
    tasks,              \* self.tasks: list of task dicts
    selected_index,     \* self.selected_index (NoSelection models None)
    tasks_changed,      \* self.tasks_changed, the dirty flag
    scheduled_alarms,   \* self.scheduled_alarms: alarm id -> scheduled callback
    now,                \* the wall clock read by time.time()
    sound_files,        \* the files os.path.exists() finds in the alarm folder
    pc,                 \* position in build(): start, loaded, resumed, running
    disk,               \* content of the tasks file (TASKS_FILE), where it is tracked
    notified,           \* ids of the alarms whose popup is open, their sound playing
    temp_file,          \* content of TASKS_FILE + '.tmp'
    platform,           \* kivy.utils.platform
    settings            \* the colour and display-name attributes held in memory

vars == <<tasks, selected_index, tasks_changed, scheduled_alarms, now, sound_files, pc,
          disk, notified, temp_file, platform, settings>>

\* What the timer, selection and scheduling handlers never touch.
storage == <<disk, temp_file, platform, settings>>
popups == <<notified>>

-----------------------------------------------------------------------------
(* Bounds *)

MaxTime == 3
MaxTasks == 2
MaxAlarms == 2
MaxList == 5
TicksPerSecond == 2

Times == 1..MaxTime
MaxTimer == MaxTime + 1
Indexes == -1..MaxTasks

-----------------------------------------------------------------------------
(* Values *)

\* A JSON value read where the code tests isinstance(v, (int, float)):
\* a number, or something else (None, a missing key).
None == [isnum |-> FALSE, n |-> 0]
Num(x) == [isnum |-> TRUE, n |-> x]
IsNumber(v) == v.isnum

NoSelection == -1
\* The None that move_task returns for an index out of range.
NoIndex == -1
\* A truthy JSON value of another type (a string) where the code expects a number.
NotANumber == -1
NoId == ""
\* The tasks file of a specification that takes the document read at startup as
\* an input of LoadTasks and never writes the file.
Untracked == [kind |-> "untracked"]
NoSound == ""
SoundNames == {"beep"}
LostSound == "lost"
AlarmIds == {"a1", "a2", "a3"}
Titles == <<"A", "B", "C", "D", "E">>
NoTitle == ""
\* Line 2969: the number of titleHistory entries a rename keeps.
MaxHistory == 10

ValidIndex(ts, index) == 0 <= index /\ index < Len(ts)

\* A task with the keys the model follows.
RawTask(title, timer, running, start, legacy, completed, alarms) ==
    [task |-> title, timer |-> timer, timer_running |-> running, start_time_unix |-> start,
     start_time |-> legacy, completed |-> completed, alarms |-> alarms, subtasks |-> <<>>,
     titleHistory |-> <<>>]

DefaultTask(title) == RawTask(title, 0, FALSE, None, None, FALSE, <<>>)

-----------------------------------------------------------------------------
(* format_timedelta *)

Digits == <<"0", "1", "2", "3", "4", "5", "6", "7", "8", "9">>

RECURSIVE Decimal(_)
Decimal(n) == IF n < 10 THEN Digits[n + 1] ELSE Decimal(n \div 10) \o Digits[(n % 10) + 1]

\* The format spec {x:02}: decimal, zero-padded to at least two characters.
Pad02(n) == IF n < 10 THEN "0" \o Decimal(n) ELSE Decimal(n)

\* round(seconds) in place of int(seconds).
IntSeconds_Rounds(ticks) == (ticks + TicksPerSecond \div 2) \div TicksPerSecond

\* int(seconds) for seconds >= 0, seconds given in ticks.
IntSeconds(ticks) == ticks \div TicksPerSecond

format_timedelta(ticks) ==
    LET clamped == IF ticks < 0 THEN 0 ELSE ticks
        seconds == IntSeconds(clamped)
        hours == seconds \div 3600
        remainder == seconds % 3600
        minutes == remainder \div 60
        secs == remainder % 60
    IN  Pad02(hours) \o ":" \o Pad02(minutes) \o ":" \o Pad02(secs)

\* update_timer_label with current_total_time=None: the value shown for a task.
CurrentDisplayValue(task, t) ==
    IF task.timer_running /\ IsNumber(task.start_time_unix)
    THEN task.timer + (t - task.start_time_unix.n)
    ELSE task.timer

-----------------------------------------------------------------------------
(* load_tasks *)

\* Lines 750-757: an alarm entry is kept when target and sound file are truthy.
ValidAlarmEntry(a) == a.target_timestamp_unix # 0 /\ a.sound_file # NoSound

ValidAlarms(alarms) == SelectSeq(alarms, ValidAlarmEntry)

\* Lines 760-762: the legacy start_time key is folded into start_time_unix.
FoldLegacyStartTime(task) ==
    IF IsNumber(task.start_time)
    THEN [task EXCEPT !.start_time_unix = IF @ = None THEN task.start_time ELSE @,
                      !.start_time = None]
    ELSE task

\* _initialize_subtasks visits the subtasks at every depth and fills in the
\* keys a subtask lacks (setdefault); a key that is there keeps its value, so
\* of the keys the model follows none changes.
RECURSIVE InitializeSubtasks(_)
InitializeSubtasks(task) ==
    [task EXCEPT !.subtasks = [k \in 1..Len(@) |-> InitializeSubtasks(@[k])]]

\* A history that takes the title whatever its last entry is.
AppendUnlessLast_Always(h, title) == Append(h, title)

\* Lines 758, 2961-2962, 2966-2967: the title is appended to titleHistory when
\* the history is empty or its last entry has another title.  Of an entry
\* {title, timestamp} the model keeps the title.
AppendUnlessLast(h, title) ==
    IF h = <<>> \/ h[Len(h)] # title THEN Append(h, title) ELSE h

NormalizeTask(raw) ==
    LET t1 == InitializeSubtasks(raw)
        t2 == [t1 EXCEPT !.alarms = ValidAlarms(@)]
        t3 == [t2 EXCEPT !.titleHistory = AppendUnlessLast(@, t2.task)]
    IN  FoldLegacyStartTime(t3)

\* An entry of the tasks array that is not a JSON object (a number, a string,
\* null): line 736 or 738 raises on it.
NotADict == [json |-> "number"]

IsDict(entry) == "task" \in DOMAIN entry

\* Lines 734-764: an entry whose processing raises is logged and skipped
\* (line 764); the others are normalised and kept, in order.
load_tasks(doc) ==
    LET kept == SelectSeq(doc, IsDict)
    IN  [i \in 1..Len(kept) |-> NormalizeTask(kept[i])]

\* build() line 615; docs is the set of documents the tasks file may hold.
LoadTasks(docs) ==
    /\ pc = "start"
    /\ \E doc \in docs : tasks' = load_tasks(doc)
    /\ pc' = "loaded"
    /\ UNCHANGED <<selected_index, tasks_changed, scheduled_alarms, now, sound_files>>
    /\ UNCHANGED <<storage, popups>>

-----------------------------------------------------------------------------
(* check_and_resume_timers *)

ResumeElapsed(task, t) == t - task.start_time_unix.n

\* A reconcile that folds the gap in but leaves the old start time in place.
ResumeTask_KeepsStart(task, t) ==
    IF task.timer_running /\ IsNumber(task.start_time_unix)
    THEN IF ResumeElapsed(task, t) > 0
         THEN [task EXCEPT !.timer = @ + ResumeElapsed(task, t)]
         ELSE task
    ELSE IF task.timer_running
         THEN [task EXCEPT !.timer_running = FALSE, !.start_time_unix = None]
         ELSE task

ResumeTask(task, t) ==
    IF task.timer_running /\ IsNumber(task.start_time_unix)
    THEN IF ResumeElapsed(task, t) > 0
         THEN [task EXCEPT !.timer = @ + ResumeElapsed(task, t), !.start_time_unix = Num(t)]
         ELSE [task EXCEPT !.start_time_unix = Num(t)]
    ELSE IF task.timer_running
         THEN [task EXCEPT !.timer_running = FALSE, !.start_time_unix = None]
         ELSE task

ResumeNeedsSave(ts) == \E i \in 1..Len(ts) : ts[i].timer_running

CheckAndResumeTimers ==
    /\ pc = "loaded"
    /\ tasks' = [i \in 1..Len(tasks) |-> ResumeTask(tasks[i], now)]
    /\ \A i \in 1..Len(tasks) : tasks'[i].timer <= MaxTimer
    /\ tasks_changed' = (tasks_changed \/ ResumeNeedsSave(tasks))
    /\ pc' = "resumed"
    /\ UNCHANGED <<selected_index, scheduled_alarms, now, sound_files>>
    /\ UNCHANGED <<storage, popups>>

-----------------------------------------------------------------------------
(* Timer logic: start_timer, stop_timer, reset_timer *)
(* For each handler: <Handler>Acts tells whether the call passes the early  *)
(* returns and completes its try body (so mark_tasks_changed ran), and the  *)
(* lower-case operator gives self.tasks after the call.                    *)

StartedTask(task, t) == [task EXCEPT !.timer_running = TRUE, !.start_time_unix = Num(t)]

\* A start_timer whose early return tests completed only.
StartTimerActs_Rearms(ts, index) ==
    /\ ValidIndex(ts, index)
    /\ ~ts[index + 1].completed

\* A start that does not look at the completed flag.
StartTimerActs_IgnoresCompleted(ts, index) ==
    /\ ValidIndex(ts, index)
    /\ ~ts[index + 1].timer_running

StartTimerActs(ts, index) ==
    /\ ValidIndex(ts, index)
    /\ ~(ts[index + 1].timer_running \/ ts[index + 1].completed)

start_timer(ts, index, t) ==
    IF StartTimerActs(ts, index) THEN [ts EXCEPT ![index + 1] = StartedTask(@, t)] ELSE ts

StartTimer(index) ==
    /\ pc = "running"
    /\ tasks' = start_timer(tasks, index, now)
    /\ tasks_changed' = (tasks_changed \/ StartTimerActs(tasks, index))
    /\ UNCHANGED <<selected_index, scheduled_alarms, now, sound_files, pc>>
    /\ UNCHANGED <<storage, popups>>

\* Line 1730 binds `elapsed` only when start_time is a number; line 1731 reads it
\* regardless.  With a non-numeric start_time the read raises UnboundLocalError,
\* which the handler's `except Exception` (line 1733) logs: nothing was assigned.
StopTimerRaises(task) == ~IsNumber(task.start_time_unix)

StopElapsed(task, t) == t - task.start_time_unix.n

\* A stop_timer without the elapsed > 0 test.
StoppedTask_AddsAnyElapsed(task, t) ==
    [task EXCEPT !.timer = @ + StopElapsed(task, t), !.timer_running = FALSE,
                 !.start_time_unix = None]

StoppedTask(task, t) ==
    LET final_time == IF StopElapsed(task, t) > 0 THEN task.timer + StopElapsed(task, t)
                      ELSE task.timer
    IN  [task EXCEPT !.timer = final_time, !.timer_running = FALSE, !.start_time_unix = None]

StopTimerActs(ts, index) ==
    /\ ValidIndex(ts, index)
    /\ ts[index + 1].timer_running
    /\ ~StopTimerRaises(ts[index + 1])

stop_timer(ts, index, t) ==
    IF StopTimerActs(ts, index) THEN [ts EXCEPT ![index + 1] = StoppedTask(@, t)] ELSE ts

StopTimer(index) ==
    /\ pc = "running"
    /\ tasks' = stop_timer(tasks, index, now)
    /\ \A i \in 1..Len(tasks) : tasks'[i].timer <= MaxTimer
    /\ tasks_changed' = (tasks_changed \/ StopTimerActs(tasks, index))
    /\ UNCHANGED <<selected_index, scheduled_alarms, now, sound_files, pc>>
    /\ UNCHANGED <<storage, popups>>

ResetTask(task) == [task EXCEPT !.timer = 0, !.timer_running = FALSE, !.start_time_unix = None]

\* A reset_timer without the completed test.
ResetTimerActs_IgnoresCompleted(ts, index) == ValidIndex(ts, index)

ResetTimerActs(ts, index) ==
    /\ ValidIndex(ts, index)
    /\ ~ts[index + 1].completed

reset_timer(ts, index) ==
    IF ResetTimerActs(ts, index) THEN [ts EXCEPT ![index + 1] = ResetTask(@)] ELSE ts

ResetTimer(index) ==
    /\ pc = "running"
    /\ tasks' = reset_timer(tasks, index)
    /\ tasks_changed' = (tasks_changed \/ ResetTimerActs(tasks, index))
    /\ UNCHANGED <<selected_index, scheduled_alarms, now, sound_files, pc>>
    /\ UNCHANGED <<storage, popups>>

-----------------------------------------------------------------------------
(* Selection and completion *)

SelectTask(index) ==
    /\ pc = "running"
    /\ selected_index' = IF ValidIndex(tasks, index) THEN index ELSE selected_index
    /\ UNCHANGED <<tasks, tasks_changed, scheduled_alarms, now, sound_files, pc>>
    /\ UNCHANGED <<storage, popups>>

\* mark_as_completed_gui returns early without a selection or with a stale one.
MarkAsCompletedActs(ts, selected) == selected # NoSelection /\ ValidIndex(ts, selected)

ToggledTask(task) == [task EXCEPT !.completed = ~@]

\* Lines 2985-2996: flip completed, then stop_timer when the task has become
\* completed and its timer is running.
mark_as_completed_gui(ts, selected, t) ==
    IF ~MarkAsCompletedActs(ts, selected) THEN ts
    ELSE LET toggled == [ts EXCEPT ![selected + 1] = ToggledTask(@)]
         IN  IF toggled[selected + 1].completed /\ toggled[selected + 1].timer_running
             THEN stop_timer(toggled, selected, t)
             ELSE toggled

MarkAsCompletedGui ==
    /\ pc = "running"
    /\ tasks' = mark_as_completed_gui(tasks, selected_index, now)
    /\ \A i \in 1..Len(tasks) : tasks'[i].timer <= MaxTimer
    /\ tasks_changed' = (tasks_changed \/ MarkAsCompletedActs(tasks, selected_index))
    /\ UNCHANGED <<selected_index, scheduled_alarms, now, sound_files, pc>>
    /\ UNCHANGED <<storage, popups>>

-----------------------------------------------------------------------------
(* import_tasks_gui.do_import: the imported list replaces self.tasks as it is *)

DoImport(docs) ==
    /\ pc = "running"
    /\ \E doc \in docs : tasks' = doc
    /\ tasks_changed' = TRUE
    /\ UNCHANGED <<selected_index, scheduled_alarms, now, sound_files, pc>>
    /\ UNCHANGED <<storage, popups>>

-----------------------------------------------------------------------------
(* Alarm scheduling: _schedule_alarm, _reschedule_pending_alarms, _save_alarm *)

\* scheduled_alarms is a dict keyed by alarm id; an entry stands for the pending
\* Clock event, whose callback captured (task_index, alarm_id).
Handle(alarm_id, task_index) == [alarm_id |-> alarm_id, task_index |-> task_index]

ScheduledIds(sched) == {e.alarm_id : e \in sched}

\* scheduled_alarms.pop(alarm_id, None), the popped event being cancelled or fired.
Pop(sched, alarm_id) == {e \in sched : e.alarm_id # alarm_id}

\* not all([target_timestamp, alarm_id, sound_file])
MissingData(a) == a.target_timestamp_unix = 0 \/ a.id = NoId \/ a.sound_file = NoSound

Disabled(a) == [a EXCEPT !.enabled = FALSE]

\* target - time.time() (line 2628) and target <= now_ts (line 2667) raise
\* TypeError when the target is not a number; neither line is inside a try.
TargetRaises(a) == a.target_timestamp_unix = NotANumber

\* _schedule_alarm(task_index, alarm_entry) at time t: the value returned, the
\* entry and scheduled_alarms afterwards, and whether mark_tasks_changed ran.
schedule_alarm(sched, files, t, task_index, a) ==
    IF MissingData(a) \/ ~a.enabled
    THEN [ok |-> FALSE, alarm |-> a, sched |-> sched, changed |-> FALSE, raised |-> FALSE]
    ELSE IF a.sound_file \notin files
    THEN [ok |-> FALSE, alarm |-> Disabled(a), sched |-> sched, changed |-> TRUE,
          raised |-> FALSE]
    ELSE IF TargetRaises(a)
    THEN [ok |-> FALSE, alarm |-> a, sched |-> sched, changed |-> FALSE, raised |-> TRUE]
    ELSE IF a.target_timestamp_unix - t <= 0
    THEN [ok |-> FALSE, alarm |-> Disabled(a), sched |-> sched, changed |-> TRUE,
          raised |-> FALSE]
    ELSE [ok |-> TRUE, alarm |-> a,
          sched |-> Pop(sched, a.id) \cup {Handle(a.id, task_index)}, changed |-> FALSE,
          raised |-> FALSE]

\* A startup pass that skips alarms whose target has passed, leaving them armed.
RearmAlarm_KeepsPastEnabled(sched, files, t, task_index, a) ==
    IF ~a.enabled \/ (~MissingData(a) /\ a.target_timestamp_unix <= t)
    THEN [alarm |-> a, sched |-> sched, updated |-> FALSE, changed |-> FALSE,
          raised |-> FALSE]
    ELSE IF MissingData(a) \/ a.sound_file \notin files
    THEN [alarm |-> Disabled(a), sched |-> sched, updated |-> TRUE, changed |-> FALSE,
          raised |-> FALSE]
    ELSE LET r == schedule_alarm(sched, files, t, task_index, a)
         IN  IF r.ok
             THEN [alarm |-> r.alarm, sched |-> r.sched, updated |-> FALSE,
                   changed |-> r.changed, raised |-> FALSE]
             ELSE [alarm |-> Disabled(r.alarm), sched |-> r.sched, updated |-> TRUE,
                   changed |-> r.changed, raised |-> FALSE]

\* A startup pass that arms an enabled alarm whatever its target time is.
RearmAlarm_SchedulesPast(sched, files, t, task_index, a) ==
    IF ~a.enabled
    THEN [alarm |-> a, sched |-> sched, updated |-> FALSE, changed |-> FALSE,
          raised |-> FALSE]
    ELSE IF MissingData(a) \/ a.sound_file \notin files
    THEN [alarm |-> Disabled(a), sched |-> sched, updated |-> TRUE, changed |-> FALSE,
          raised |-> FALSE]
    ELSE [alarm |-> a, sched |-> sched \cup {Handle(a.id, task_index)}, updated |-> FALSE,
          changed |-> FALSE, raised |-> FALSE]

\* A startup pass that arms alarms whatever their enabled flag says.
RearmAlarm_RearmsDisabled(sched, files, t, task_index, a) ==
    LET r == schedule_alarm(sched, files, t, task_index, [a EXCEPT !.enabled = TRUE])
    IN  [alarm |-> r.alarm, sched |-> r.sched, updated |-> FALSE, changed |-> r.changed,
         raised |-> r.raised]

\* Lines 2663-2671: one alarm entry of the startup pass.  `raised` tells that
\* the entry made the pass raise (TypeError at line 2667), nothing being assigned.
RearmAlarm(sched, files, t, task_index, a) ==
    IF ~a.enabled
    THEN [alarm |-> a, sched |-> sched, updated |-> FALSE, changed |-> FALSE,
          raised |-> FALSE]
    ELSE IF MissingData(a) \/ a.sound_file \notin files
    THEN [alarm |-> Disabled(a), sched |-> sched, updated |-> TRUE, changed |-> FALSE,
          raised |-> FALSE]
    ELSE IF TargetRaises(a)
    THEN [alarm |-> a, sched |-> sched, updated |-> FALSE, changed |-> FALSE,
          raised |-> TRUE]
    ELSE IF a.target_timestamp_unix <= t
    THEN [alarm |-> Disabled(a), sched |-> sched, updated |-> TRUE, changed |-> FALSE,
          raised |-> FALSE]
    ELSE LET r == schedule_alarm(sched, files, t, task_index, a)
         IN  IF r.ok
             THEN [alarm |-> r.alarm, sched |-> r.sched, updated |-> FALSE,
                   changed |-> r.changed, raised |-> r.raised]
             ELSE [alarm |-> Disabled(r.alarm), sched |-> r.sched, updated |-> TRUE,
                   changed |-> r.changed, raised |-> r.raised]

\* The inner loop (line 2661) over alarms[k..] of one task; it ends at the entry
\* that raises.  Entries are dicts changed in place, so what was done stays done.
RECURSIVE RearmAlarms(_, _, _, _, _, _)
RearmAlarms(sched, files, t, task_index, alarms, k) ==
    IF k > Len(alarms)
    THEN [alarms |-> alarms, sched |-> sched, updated |-> FALSE, changed |-> FALSE,
          raised |-> FALSE]
    ELSE LET r == RearmAlarm(sched, files, t, task_index, alarms[k])
         IN  IF r.raised
             THEN [alarms |-> alarms, sched |-> sched, updated |-> FALSE,
                   changed |-> FALSE, raised |-> TRUE]
             ELSE LET rest == RearmAlarms(r.sched, files, t, task_index,
                                          [alarms EXCEPT ![k] = r.alarm], k + 1)
                  IN  [rest EXCEPT !.updated = @ \/ r.updated, !.changed = @ \/ r.changed]

\* The outer loop (line 2659) over tasks[k..]; only top-level tasks are visited.
\* `changed` tells whether mark_tasks_changed ran: within _schedule_alarm, or at
\* line 2674, which a pass that raises does not reach.
RECURSIVE RearmTasks(_, _, _, _, _)
RearmTasks(sched, files, t, ts, k) ==
    IF k > Len(ts)
    THEN [tasks |-> ts, sched |-> sched, changed |-> FALSE, updated |-> FALSE,
          raised |-> FALSE]
    ELSE LET r == RearmAlarms(sched, files, t, k - 1, ts[k].alarms, 1)
             ts1 == [ts EXCEPT ![k] = [@ EXCEPT !.alarms = r.alarms]]
         IN  IF r.raised
             THEN [tasks |-> ts1, sched |-> r.sched, changed |-> r.changed,
                   updated |-> FALSE, raised |-> TRUE]
             ELSE LET rest == RearmTasks(r.sched, files, t, ts1, k + 1)
                  IN  [rest EXCEPT !.changed = @ \/ r.changed,
                                   !.updated = @ \/ r.updated]

\* build() line 621.  An exception leaves build(): the application does not start.
ReschedulePendingAlarms ==
    /\ pc = "resumed"
    /\ LET r == RearmTasks(scheduled_alarms, sound_files, now, tasks, 1)
       IN  /\ tasks' = r.tasks
           /\ scheduled_alarms' = r.sched
           /\ tasks_changed' = (tasks_changed \/ r.changed \/ (r.updated /\ ~r.raised))
           /\ pc' = IF r.raised THEN "crashed" ELSE "running"
    /\ UNCHANGED <<selected_index, now, sound_files>>
    /\ UNCHANGED <<storage, popups>>

\* Ids a newly generated id (task index, target, uuid4 suffix) differs from.
UsedIds(ts, sched) ==
    ScheduledIds(sched) \cup
    UNION {{ts[i].alarms[k].id : k \in 1..Len(ts[i].alarms)} : i \in 1..Len(ts)}

TotalAlarms(ts) ==
    LET RECURSIVE Count(_)
        Count(k) == IF k = 0 THEN 0 ELSE Len(ts[k].alarms) + Count(k - 1)
    IN  Count(Len(ts))

\* A future-time check that lets a target equal to the clock reading through.
SaveAlarmRejected_AllowsNow(ts, files, t, task_index, target, sound) ==
    \/ sound \notin files
    \/ target < t
    \/ ~ValidIndex(ts, task_index)

\* Lines 2607-2616: the three checks that raise ValueError / IndexError, caught
\* at line 2621 before anything was assigned.
SaveAlarmRejected(ts, files, t, task_index, target, sound) ==
    \/ sound \notin files
    \/ target <= t
    \/ ~ValidIndex(ts, task_index)

\* _save_alarm with the target time and sound the popup's spinners hold, at time
\* t; alarm_id is the id generated at line 2615 (task index, target, uuid4
\* suffix).  Gives self.tasks and scheduled_alarms after the call.
save_alarm(ts, sched, files, t, task_index, target, sound, alarm_id) ==
    IF SaveAlarmRejected(ts, files, t, task_index, target, sound)
    THEN [tasks |-> ts, sched |-> sched, changed |-> FALSE]
    ELSE LET alarm_entry == [id |-> alarm_id, target_timestamp_unix |-> target,
                             sound_file |-> sound, enabled |-> TRUE]
             r == schedule_alarm(sched, files, t, task_index, alarm_entry)
         IN  [tasks |-> [ts EXCEPT ![task_index + 1] =
                            [@ EXCEPT !.alarms = Append(@, r.alarm)]],
              sched |-> r.sched, changed |-> TRUE]

\* The uuid4 suffix makes the generated id differ from every id in use.
FreshIds == AlarmIds \ UsedIds(tasks, scheduled_alarms)

SaveAlarm(task_index, target, sound) ==
    /\ pc = "running"
    /\ TotalAlarms(tasks) < MaxAlarms
    /\ \E alarm_id \in FreshIds :
         LET r == save_alarm(tasks, scheduled_alarms, sound_files, now, task_index,
                             target, sound, alarm_id)
         IN  /\ tasks' = r.tasks
             /\ scheduled_alarms' = r.sched
             /\ tasks_changed' = (tasks_changed \/ r.changed)
    /\ UNCHANGED <<selected_index, now, sound_files, pc>>
    /\ UNCHANGED <<storage, popups>>

-----------------------------------------------------------------------------
(* Alarm life cycle: _trigger_alarm_action, dismiss_action, _delete_alarm *)

\* next((a for a in alarms if a.get('id') == alarm_id), None): the position of
\* the first entry with that id, 0 when there is none.
FindAlarm(alarms, alarm_id) ==
    IF \E k \in 1..Len(alarms) : alarms[k].id = alarm_id
    THEN CHOOSE k \in 1..Len(alarms) :
            alarms[k].id = alarm_id /\ \A j \in 1..(k - 1) : alarms[j].id # alarm_id
    ELSE 0

\* A callback that goes on for an alarm switched off in the meantime.
TriggerAborts_IgnoresEnabled(ts, task_index, alarm_id) ==
    \/ ~ValidIndex(ts, task_index)
    \/ FindAlarm(ts[task_index + 1].alarms, alarm_id) = 0

\* Lines 2638-2641: the callback returns after the pop when the task index is
\* out of range, no entry of the task has the id, or the entry is not enabled.
TriggerAborts(ts, task_index, alarm_id) ==
    \/ ~ValidIndex(ts, task_index)
    \/ FindAlarm(ts[task_index + 1].alarms, alarm_id) = 0
    \/ ~ts[task_index + 1].alarms[FindAlarm(ts[task_index + 1].alarms, alarm_id)].enabled

\* Lines 2643, 2655, 2656: what happens to the entry when the sound file is
\* missing or pygame raises.
TriggerFails(a) == Disabled(a)

\* _trigger_alarm_action(task_index, alarm_id); plays tells whether pygame
\* loads and plays the file.  Gives self.tasks and scheduled_alarms afterwards,
\* whether mark_tasks_changed ran and whether the ALARM! popup opened.
trigger_alarm_action(ts, sched, files, task_index, alarm_id, plays) ==
    LET popped == Pop(sched, alarm_id)
    IN  IF TriggerAborts(ts, task_index, alarm_id)
        THEN [tasks |-> ts, sched |-> popped, changed |-> FALSE, notifies |-> FALSE]
        ELSE LET k == FindAlarm(ts[task_index + 1].alarms, alarm_id)
                 a == ts[task_index + 1].alarms[k]
             IN  IF a.sound_file = NoSound \/ a.sound_file \notin files \/ ~plays
                 THEN [tasks |-> [ts EXCEPT ![task_index + 1].alarms[k] = TriggerFails(a)],
                       sched |-> popped, changed |-> TRUE, notifies |-> FALSE]
                 ELSE [tasks |-> ts, sched |-> popped, changed |-> FALSE,
                       notifies |-> TRUE]

\* The Clock event of a handle fires.  Kivy's Clock runs on its own monotonic
\* time, so the reading of the wall clock does not decide when.
TriggerAlarmAction(e, plays) ==
    /\ pc = "running"
    /\ e \in scheduled_alarms
    /\ LET r == trigger_alarm_action(tasks, scheduled_alarms, sound_files,
                                     e.task_index, e.alarm_id, plays)
       IN  /\ tasks' = r.tasks
           /\ scheduled_alarms' = r.sched
           /\ tasks_changed' = (tasks_changed \/ r.changed)
           /\ notified' = IF r.notifies THEN notified \cup {e.alarm_id} ELSE notified
    /\ UNCHANGED <<selected_index, now, sound_files, pc, storage>>

\* alarm_entry['enabled'] = False on the dict the popup's closure holds: the
\* entry with that id (ids are unique), wherever its task is by now.
DisableById(ts, alarm_id) ==
    [i \in 1..Len(ts) |->
        [ts[i] EXCEPT !.alarms =
            [k \in 1..Len(ts[i].alarms) |->
                IF ts[i].alarms[k].id = alarm_id THEN Disabled(ts[i].alarms[k])
                ELSE ts[i].alarms[k]]]]

\* A Dismiss button that only closes the popup.
dismiss_action_ClosesOnly(ts, alarm_id) == [tasks |-> ts, changed |-> FALSE]

\* dismiss_action, lines 2648-2653.
dismiss_action(ts, alarm_id) == [tasks |-> DisableById(ts, alarm_id), changed |-> TRUE]

DismissAction(alarm_id) ==
    /\ pc = "running"
    /\ alarm_id \in notified
    /\ LET r == dismiss_action(tasks, alarm_id)
       IN  /\ tasks' = r.tasks
           /\ tasks_changed' = (tasks_changed \/ r.changed)
    /\ notified' = notified \ {alarm_id}
    /\ UNCHANGED <<selected_index, scheduled_alarms, now, sound_files, pc, storage>>

\* A filter that cuts the list at the entry asked for.
WithoutAlarm_CutsList(alarms, alarm_id) ==
    IF FindAlarm(alarms, alarm_id) = 0 THEN alarms
    ELSE SubSeq(alarms, 1, FindAlarm(alarms, alarm_id) - 1)

\* Line 2684: the entries whose id differs, in their order.
WithoutAlarm(alarms, alarm_id) == SelectSeq(alarms, LAMBDA a : a.id # alarm_id)

\* _delete_alarm(task_index, alarm_id): the value returned, self.tasks and
\* scheduled_alarms afterwards, and whether mark_tasks_changed ran.
delete_alarm(ts, sched, task_index, alarm_id) ==
    IF ~ValidIndex(ts, task_index)
    THEN [deleted |-> FALSE, tasks |-> ts, sched |-> sched, changed |-> FALSE]
    ELSE LET kept == WithoutAlarm(ts[task_index + 1].alarms, alarm_id)
             ts1 == [ts EXCEPT ![task_index + 1].alarms = kept]
         IN  IF Len(kept) < Len(ts[task_index + 1].alarms)
             THEN [deleted |-> TRUE, tasks |-> ts1, sched |-> Pop(sched, alarm_id),
                   changed |-> TRUE]
             ELSE [deleted |-> FALSE, tasks |-> ts1, sched |-> sched, changed |-> FALSE]

DeleteAlarm(task_index, alarm_id) ==
    /\ pc = "running"
    /\ LET r == delete_alarm(tasks, scheduled_alarms, task_index, alarm_id)
       IN  /\ tasks' = r.tasks
           /\ scheduled_alarms' = r.sched
           /\ tasks_changed' = (tasks_changed \/ r.changed)
    /\ UNCHANGED <<selected_index, now, sound_files, pc, storage, popups>>

-----------------------------------------------------------------------------
(* delete_task *)

\* Lines 1256-1259: `event` is assigned only under `if alarm_id`, and read for
\* every alarm; with a first alarm whose id is falsy the read raises
\* UnboundLocalError, ahead of the try of line 1260.
DeleteTaskRaises(task) == Len(task.alarms) > 0 /\ task.alarms[1].id = NoId

\* scheduled_alarms after the loop of lines 1256-1259 over alarms[k..].
RECURSIVE CancelAlarms(_, _, _)
CancelAlarms(sched, alarms, k) ==
    IF k > Len(alarms) THEN sched
    ELSE CancelAlarms(IF alarms[k].id # NoId THEN Pop(sched, alarms[k].id) ELSE sched,
                      alarms, k + 1)

RemoveAt(ts, index) == SubSeq(ts, 1, index) \o SubSeq(ts, index + 2, Len(ts))

\* delete_task(index): self.tasks, scheduled_alarms and selected_index
\* afterwards, whether mark_tasks_changed ran, and whether the call raised.
delete_task(ts, sched, selected, index) ==
    IF ~ValidIndex(ts, index)
    THEN [tasks |-> ts, sched |-> sched, selected |-> selected, changed |-> FALSE,
          raised |-> FALSE]
    ELSE IF DeleteTaskRaises(ts[index + 1])
    THEN [tasks |-> ts, sched |-> sched, selected |-> selected, changed |-> FALSE,
          raised |-> TRUE]
    ELSE [tasks |-> RemoveAt(ts, index),
          sched |-> CancelAlarms(sched, ts[index + 1].alarms, 1),
          selected |-> IF selected = index THEN NoSelection
                       ELSE IF selected # NoSelection /\ selected > index
                       THEN selected - 1 ELSE selected,
          changed |-> TRUE, raised |-> FALSE]

\* The exception leaves the button's callback and ends the event loop.
DeleteTask(index) ==
    /\ pc = "running"
    /\ LET r == delete_task(tasks, scheduled_alarms, selected_index, index)
       IN  /\ tasks' = r.tasks
           /\ scheduled_alarms' = r.sched
           /\ selected_index' = r.selected
           /\ tasks_changed' = (tasks_changed \/ r.changed)
           /\ pc' = IF r.raised THEN "crashed" ELSE pc
    /\ UNCHANGED <<now, sound_files, storage, popups>>

-----------------------------------------------------------------------------
(* The tasks file: load_tasks, save_tasks, on_stop *)

\* The file holds a JSON object (meta keys and "tasks"), a JSON list of tasks
\* (old format), another JSON value, text that is not JSON, or does not exist.
\* meta maps the top-level keys other than "tasks" to their values.
NoMeta == [k \in {} |-> NoTitle]
FileObject(meta, ts) == [kind |-> "object", meta |-> meta, tasks |-> ts]
FileList(ts) == [kind |-> "list", meta |-> NoMeta, tasks |-> ts]
FileScalar == [kind |-> "scalar", meta |-> NoMeta, tasks |-> <<>>]
FileInvalid == [kind |-> "invalid", meta |-> NoMeta, tasks |-> <<>>]
FileMissing == [kind |-> "missing", meta |-> NoMeta, tasks |-> <<>>]

\* A file whose text json.load rejects (a missing bracket, a stray comma)
\* while the task records ts can be read in it.
FileDamaged(ts) == [kind |-> "invalid", meta |-> NoMeta, tasks |-> ts]

\* The task records the file holds, parsed or not.
FileRecords(file) == file.tasks

\* Lines 713-720 and 766-768: the task entries load_tasks reads from the file.
FileTasks(file) == IF file.kind \in {"object", "list"} THEN file.tasks ELSE <<>>

\* The attributes load_tasks assigns from the meta keys (lines 722-729), and
\* the value of an attribute whose key the file does not hold.
SettingKeys == {"user_display_name", "timer_label_color", "timer_colors", "date_colors"}
DefaultSetting == "default"
DefaultSettings == [k \in SettingKeys |-> DefaultSetting]

\* Lines 715-729: a list has no meta; a file that cannot be read leaves the
\* attributes as they are (the exception is raised before line 722).
LoadedSettings(file, current) ==
    IF file.kind = "object"
    THEN [k \in SettingKeys |->
            IF k \in DOMAIN file.meta THEN file.meta[k] ELSE DefaultSetting]
    ELSE IF file.kind = "list" THEN DefaultSettings
    ELSE current

\* build() line 615, reading the tasks file.
LoadTasksFile ==
    /\ pc = "start"
    /\ tasks' = load_tasks(FileTasks(disk))
    /\ settings' = LoadedSettings(disk, settings)
    /\ pc' = "loaded"
    /\ UNCHANGED <<selected_index, tasks_changed, scheduled_alarms, now, sound_files>>
    /\ UNCHANGED <<disk, temp_file, platform, popups>>

\* Lines 1003-1014: the copy of a task that is written.
SavedTask(task) == [task EXCEPT !.start_time_unix = IF IsNumber(@) THEN @ ELSE None]

\* A save that writes a new object holding the tasks only.
SavedMeta_Dropped(file) == NoMeta

\* Lines 1018-1024: the meta read back from the file that is being replaced.
SavedMeta(file) == IF file.kind = "object" THEN file.meta ELSE NoMeta

\* Line 1026: meta.keys() raises for a JSON value that is neither an object nor
\* a list; the except of line 1035 reports it and nothing is written.
SaveFails(file) == file.kind = "scalar"

\* Lines 1001-1027: the document save_tasks writes over the file.
NewDocument(file, ts) ==
    FileObject(SavedMeta(file), [i \in 1..Len(ts) |-> SavedTask(ts[i])])

\* A save that writes the file and leaves tasks_changed as it was.
save_tasks_KeepsFlag(file, ts, changed, force) ==
    IF ~changed /\ ~force THEN [file |-> file, changed |-> changed]
    ELSE IF SaveFails(file) THEN [file |-> file, changed |-> changed]
    ELSE [file |-> NewDocument(file, ts), changed |-> changed]

\* save_tasks(force): the file and tasks_changed afterwards.
save_tasks(file, ts, changed, force) ==
    IF ~changed /\ ~force THEN [file |-> file, changed |-> changed]
    ELSE IF SaveFails(file) THEN [file |-> file, changed |-> changed]
    ELSE [file |-> NewDocument(file, ts), changed |-> FALSE]

\* save_tasks_periodically, the Clock interval of build() line 631.
SaveTasksPeriodically ==
    /\ pc = "running"
    /\ LET r == save_tasks(disk, tasks, tasks_changed, FALSE)
       IN  disk' = r.file /\ tasks_changed' = r.changed
    /\ UNCHANGED <<tasks, selected_index, scheduled_alarms, now, sound_files, pc, popups>>
    /\ UNCHANGED <<temp_file, platform, settings>>

\* on_stop saves (forced); the process ends, and pc = "start" is its next launch.
OnStop ==
    /\ pc = "running"
    /\ disk' = save_tasks(disk, tasks, tasks_changed, TRUE).file
    /\ tasks' = <<>>
    /\ selected_index' = NoSelection
    /\ tasks_changed' = FALSE
    /\ scheduled_alarms' = {}
    /\ notified' = {}
    /\ settings' = DefaultSettings
    /\ pc' = "start"
    /\ UNCHANGED <<now, sound_files, temp_file, platform>>

\* The settings whose handlers change the attribute and call save_tasks(force=True).
ColorKeys == {"timer_label_color", "timer_colors", "date_colors"}

\* ColorCyclingLabel.on_touch_down (date_colors), _on_timer_label_touch
\* (timer_colors) and the colour picker's on_ok (timer_label_color): the
\* attribute takes the new colour, then save_tasks(force=True).
SetColor(key, value) ==
    /\ pc = "running"
    /\ key \in ColorKeys
    /\ settings' = [settings EXCEPT ![key] = value]
    /\ LET r == save_tasks(disk, tasks, tasks_changed, TRUE)
       IN  disk' = r.file /\ tasks_changed' = r.changed
    /\ UNCHANGED <<tasks, selected_index, scheduled_alarms, now, sound_files, pc, popups>>
    /\ UNCHANGED <<temp_file, platform>>

-----------------------------------------------------------------------------
(* change_task_title_gui *)

\* Lines 2969-2970: titleHistory[-10:].
LastEntries(h) ==
    IF Len(h) > MaxHistory THEN SubSeq(h, Len(h) - MaxHistory + 1, Len(h)) ELSE h

\* save_title_action with the text of the input field stripped to new_title;
\* current_title is the title the popup was opened with.
save_title_action(task, current_title, new_title) ==
    IF new_title = NoTitle \/ new_title = current_title
    THEN [task |-> task, changed |-> FALSE]
    ELSE LET h1 == AppendUnlessLast(task.titleHistory, current_title)
             h2 == AppendUnlessLast(h1, new_title)
         IN  [task |-> [task EXCEPT !.task = new_title, !.titleHistory = LastEntries(h2)],
              changed |-> TRUE]

\* change_task_title_gui: the popup opens for the selected task (lines
\* 2897-2905), is modal, and its Save button runs save_title_action.
ChangeTaskTitleGui(new_title) ==
    /\ pc = "running"
    /\ selected_index # NoSelection
    /\ ValidIndex(tasks, selected_index)
    /\ LET r == save_title_action(tasks[selected_index + 1],
                                  tasks[selected_index + 1].task, new_title)
       IN  /\ tasks' = [tasks EXCEPT ![selected_index + 1] = r.task]
           /\ tasks_changed' = (tasks_changed \/ r.changed)
    /\ UNCHANGED <<selected_index, scheduled_alarms, now, sound_files, pc>>
    /\ UNCHANGED <<storage, popups>>

-----------------------------------------------------------------------------
(* The task list: add_task, move_task, _insert_task_at_position *)

\* Line 1234: the task add_task creates for a name.
NewTask(title) == [DefaultTask(title) EXCEPT !.titleHistory = <<title>>]

\* list.insert(pos, task) for pos >= 0; a pos beyond the end appends.
InsertAt(ts, pos, task) ==
    LET p == IF pos > Len(ts) THEN Len(ts) ELSE pos
    IN  SubSeq(ts, 1, p) \o <<task>> \o SubSeq(ts, p + 1, Len(ts))

\* add_task(task_name) for a top-level task: self.tasks and selected_index
\* afterwards (select_task(0)), and whether mark_tasks_changed ran.
add_task(ts, selected, task_name) ==
    IF task_name = NoTitle
    THEN [tasks |-> ts, selected |-> selected, changed |-> FALSE]
    ELSE [tasks |-> InsertAt(ts, 0, NewTask(task_name)), selected |-> 0, changed |-> TRUE]

\* Names not in use: a task is recognised by its name in the properties.
UnusedTitles == {Titles[j] : j \in 1..Len(Titles)} \ {tasks[i].task : i \in 1..Len(tasks)}

AddTask(task_name) ==
    /\ pc = "running"
    /\ Len(tasks) < MaxList
    /\ LET r == add_task(tasks, selected_index, task_name)
       IN  /\ tasks' = r.tasks
           /\ selected_index' = r.selected
           /\ tasks_changed' = (tasks_changed \/ r.changed)
    /\ UNCHANGED <<scheduled_alarms, now, sound_files, pc>>
    /\ UNCHANGED <<storage, popups>>

\* A move that goes two places.
MoveTarget_Doubled(index, direction) == index + 2 * direction

\* Line 1268.
MoveTarget(index, direction) == index + direction

\* move_task(index, direction): the value returned, self.tasks and
\* selected_index afterwards, and whether mark_tasks_changed ran.
move_task(ts, selected, index, direction) ==
    IF ~ValidIndex(ts, index)
    THEN [result |-> NoIndex, tasks |-> ts, selected |-> selected, changed |-> FALSE]
    ELSE IF ~ValidIndex(ts, MoveTarget(index, direction))
    THEN [result |-> index, tasks |-> ts, selected |-> selected, changed |-> FALSE]
    ELSE [result |-> MoveTarget(index, direction),
          tasks |-> InsertAt(RemoveAt(ts, index), MoveTarget(index, direction),
                             ts[index + 1]),
          selected |-> MoveTarget(index, direction), changed |-> TRUE]

MoveTask(index, direction) ==
    /\ pc = "running"
    /\ LET r == move_task(tasks, selected_index, index, direction)
       IN  /\ tasks' = r.tasks
           /\ selected_index' = r.selected
           /\ tasks_changed' = (tasks_changed \/ r.changed)
    /\ UNCHANGED <<scheduled_alarms, now, sound_files, pc>>
    /\ UNCHANGED <<storage, popups>>

\* Line 2315: max(0, min(len(self.tasks), to_position)).
Clamped(ts, to_position) ==
    IF to_position > Len(ts) THEN Len(ts) ELSE IF to_position < 0 THEN 0 ELSE to_position

\* An insertion that forgets the task it has just taken out.
InsertIndex_NoAdjust(from_idx, to_position) == to_position

\* Lines 2325-2326: the insertion index after the pop.
InsertIndex(from_idx, to_position) ==
    IF from_idx < to_position THEN to_position - 1 ELSE to_position

\* Lines 2332-2338.
SelectedAfterInsert(selected, from_idx, to_position) ==
    IF selected = from_idx THEN to_position
    ELSE IF selected = NoSelection THEN selected
    ELSE IF from_idx < selected /\ selected <= to_position THEN selected - 1
    ELSE IF to_position <= selected /\ selected < from_idx THEN selected + 1
    ELSE selected

\* _insert_task_at_position(from_idx, to_position): self.tasks and
\* selected_index afterwards, and whether mark_tasks_changed ran.
insert_task_at_position(ts, selected, from_idx, to_position) ==
    IF ~ValidIndex(ts, from_idx)
    THEN [tasks |-> ts, selected |-> selected, changed |-> FALSE]
    ELSE IF from_idx = Clamped(ts, to_position) \/ from_idx + 1 = Clamped(ts, to_position)
    THEN [tasks |-> ts, selected |-> selected, changed |-> FALSE]
    ELSE LET pos == InsertIndex(from_idx, Clamped(ts, to_position))
         IN  [tasks |-> InsertAt(RemoveAt(ts, from_idx), pos, ts[from_idx + 1]),
              selected |-> SelectedAfterInsert(selected, from_idx, pos),
              changed |-> TRUE]

InsertTaskAtPosition(from_idx, to_position) ==
    /\ pc = "running"
    /\ LET r == insert_task_at_position(tasks, selected_index, from_idx, to_position)
       IN  /\ tasks' = r.tasks
           /\ selected_index' = r.selected
           /\ tasks_changed' = (tasks_changed \/ r.changed)
    /\ UNCHANGED <<scheduled_alarms, now, sound_files, pc>>
    /\ UNCHANGED <<storage, popups>>

-----------------------------------------------------------------------------
(* save_tasks, one file operation at a time *)

Platforms == {"win", "linux"}

\* The temp file between open(temp_file, 'w') and the end of json.dump.
FilePartial == [kind |-> "partial", meta |-> NoMeta, tasks |-> <<>>]

SavingStates == {"save_open", "save_written", "save_removed"}

\* Lines 1000-1028: the save goes ahead and opens the temp file for writing.
SaveOpenTemp(force) ==
    /\ pc = "running"
    /\ tasks_changed \/ force
    /\ ~SaveFails(disk)
    /\ temp_file' = FilePartial
    /\ pc' = "save_open"
    /\ UNCHANGED <<tasks, selected_index, tasks_changed, scheduled_alarms, now, sound_files>>
    /\ UNCHANGED <<disk, platform, settings, popups>>

\* Line 1029: json.dump(meta, f) completes and the temp file is closed.
SaveDumpTemp ==
    /\ pc = "save_open"
    /\ temp_file' = NewDocument(disk, tasks)
    /\ pc' = "save_written"
    /\ UNCHANGED <<tasks, selected_index, tasks_changed, scheduled_alarms, now, sound_files>>
    /\ UNCHANGED <<disk, platform, settings, popups>>

\* Line 1030.
RemovesOldFile(p, file) == p = "win" /\ file.kind # "missing"

\* Lines 1030-1031: os.remove(TASKS_FILE).
SaveRemoveOld ==
    /\ pc = "save_written"
    /\ RemovesOldFile(platform, disk)
    /\ disk' = FileMissing
    /\ pc' = "save_removed"
    /\ UNCHANGED <<tasks, selected_index, tasks_changed, scheduled_alarms, now, sound_files>>
    /\ UNCHANGED <<temp_file, platform, settings, popups>>

\* Lines 1033-1034: os.replace(temp_file, TASKS_FILE), tasks_changed = False.
SaveReplace ==
    /\ \/ pc = "save_removed"
       \/ pc = "save_written" /\ ~RemovesOldFile(platform, disk)
    /\ disk' = temp_file
    /\ temp_file' = FileMissing
    /\ tasks_changed' = FALSE
    /\ pc' = "running"
    /\ UNCHANGED <<tasks, selected_index, scheduled_alarms, now, sound_files>>
    /\ UNCHANGED <<platform, settings, popups>>

\* The process stops in the middle of a save (killed, power loss); the files
\* stay as they are and pc = "start" is the next launch.
ProcessStops ==
    /\ pc \in SavingStates
    /\ tasks' = <<>>
    /\ selected_index' = NoSelection
    /\ tasks_changed' = FALSE
    /\ scheduled_alarms' = {}
    /\ notified' = {}
    /\ settings' = DefaultSettings
    /\ pc' = "start"
    /\ UNCHANGED <<now, sound_files, disk, temp_file, platform>>

-----------------------------------------------------------------------------
(* Environment *)

\* The wall clock moves, forwards or backwards (clock skew, manual changes).
Tick ==
    /\ \E t \in Times : t # now /\ now' = t
    /\ UNCHANGED <<tasks, selected_index, tasks_changed, scheduled_alarms, sound_files, pc>>
    /\ UNCHANGED <<storage, popups>>

\* A sound file is deleted from the alarm folder outside the application.
RemoveSoundFile(f) ==
    /\ f \in sound_files
    /\ sound_files' = sound_files \ {f}
    /\ UNCHANGED <<tasks, selected_index, tasks_changed, scheduled_alarms, now, pc>>
    /\ UNCHANGED <<storage, popups>>

-----------------------------------------------------------------------------
(* Documents *)

StartValues == {None} \cup {Num(t) : t \in 0..MaxTime}

\* Task records whose timer fields take every combination.
TimerTasks(title) ==
    {RawTask(title, timer, running, start, legacy, completed, <<>>) :
        timer \in {0, 1}, running \in BOOLEAN, start \in StartValues,
        legacy \in {None, Num(1)}, completed \in BOOLEAN}

\* Documents of n tasks drawn from TimerTasks, titled Titles[1..n].
RECURSIVE TimerDocsOf(_)
TimerDocsOf(n) ==
    IF n = 0 THEN {<<>>}
    ELSE {Append(d, t) : d \in TimerDocsOf(n - 1), t \in TimerTasks(Titles[n])}

TimerDocs == UNION {TimerDocsOf(n) : n \in 0..MaxTasks}

\* Files offered to the import dialog: written by other tools, not normalised.
\* The first task varies, the tasks after it are freshly created ones.
ImportTasks(title) ==
    {RawTask(title, 0, running, start, None, completed, <<>>) :
        running \in BOOLEAN, start \in {None, Num(1)}, completed \in BOOLEAN}

RECURSIVE Padded(_, _)
Padded(doc, n) == IF Len(doc) >= n THEN doc ELSE Padded(Append(doc, DefaultTask(Titles[Len(doc) + 1])), n)

ImportDocs == {Padded(<<t>>, n) : t \in ImportTasks(Titles[1]), n \in 1..MaxTasks}

\* Alarm entries as a document may hold them: the id present or null, the
\* target missing (0), past or future, the sound file missing, lost or present.
RawAlarm(id, target, sound, enabled) ==
    [id |-> id, target_timestamp_unix |-> target, sound_file |-> sound, enabled |-> enabled]

DocAlarms ==
    {RawAlarm(id, target, sound, enabled) :
        id \in {"a1", "a2", NoId}, target \in {0, 2, MaxTime + 1},
        sound \in {NoSound, LostSound} \cup SoundNames, enabled \in BOOLEAN}

RECURSIVE AlarmLists(_)
AlarmLists(n) ==
    IF n = 0 THEN {<<>>}
    ELSE AlarmLists(n - 1) \cup
         {Append(l, a) : l \in {x \in AlarmLists(n - 1) : Len(x) = n - 1}, a \in DocAlarms}

AllAlarmLists == AlarmLists(MaxAlarms)

\* Documents of n tasks over which the alarm entries of l are dealt out in order.
RECURSIVE AlarmDocsOf(_, _)
AlarmDocsOf(l, n) ==
    IF n = 0 THEN (IF l = <<>> THEN {<<>>} ELSE {})
    ELSE UNION {{Append(d, RawTask(Titles[n], 0, FALSE, None, None, FALSE,
                                   SubSeq(l, c + 1, Len(l)))) :
                    d \in AlarmDocsOf(SubSeq(l, 1, c), n - 1)} :
                c \in 0..Len(l)}

\* Ids are unique across a document (they are generated with a uuid4 suffix).
UniqueIds(doc) ==
    \A i, j \in 1..Len(doc) : \A k \in 1..Len(doc[i].alarms) : \A l \in 1..Len(doc[j].alarms) :
        (doc[i].alarms[k].id = doc[j].alarms[l].id /\ doc[i].alarms[k].id # NoId)
            => (i = j /\ k = l)

AlarmDocs ==
    {d \in UNION {AlarmDocsOf(l, n) : l \in AllAlarmLists, n \in 0..MaxTasks} : UniqueIds(d)}

\* Alarm entries whose target may be a string: truthy, so load_tasks keeps them.
MistypedAlarms ==
    {RawAlarm(id, target, sound, enabled) :
        id \in {"a1", "a2"}, target \in {NotANumber, 2, MaxTime + 1},
        sound \in {LostSound} \cup SoundNames, enabled \in BOOLEAN}

RECURSIVE MistypedLists(_)
MistypedLists(n) ==
    IF n = 0 THEN {<<>>}
    ELSE MistypedLists(n - 1) \cup
         {Append(l, a) : l \in {x \in MistypedLists(n - 1) : Len(x) = n - 1},
                         a \in MistypedAlarms}

MistypedDocs ==
    {d \in UNION {AlarmDocsOf(l, n) : l \in MistypedLists(MaxAlarms), n \in 1..MaxTasks} :
        UniqueIds(d)}

\* Documents of the alarm life cycle: entries load_tasks keeps, with a sound
\* file that is there at startup, the id present or null, enabled or not.
LifeAlarms ==
    {RawAlarm(id, target, sound, enabled) :
        id \in {"a1", "a2", NoId}, target \in {2},
        sound \in SoundNames, enabled \in BOOLEAN}

RECURSIVE LifeLists(_)
LifeLists(n) ==
    IF n = 0 THEN {<<>>}
    ELSE LifeLists(n - 1) \cup
         {Append(l, a) : l \in {x \in LifeLists(n - 1) : Len(x) = n - 1}, a \in LifeAlarms}

LifeDocs ==
    {d \in UNION {AlarmDocsOf(l, n) : l \in LifeLists(MaxAlarms), n \in 1..MaxTasks} :
        UniqueIds(d)}

\* Documents of one task with the titleHistory a file may hold: missing,
\* as the application writes it, ending with another title, with a repeated
\* entry, and longer than a rename keeps.
LongHistory == [j \in 1..(MaxHistory + 1) |-> IF j % 2 = 1 THEN Titles[1] ELSE Titles[2]]

TitleHistories ==
    {<<>>, <<Titles[1]>>, <<Titles[2]>>, <<Titles[1], Titles[1]>>,
     <<Titles[2], Titles[1]>>, LongHistory}

TitleDocs ==
    {<<[DefaultTask(Titles[1]) EXCEPT !.titleHistory = h]>> : h \in TitleHistories}

\* Top-level keys of the tasks file beside "tasks": keys load_tasks reads
\* (lines 722-729) and one it does not know, each absent or holding a value.
MetaKeys == {"user_display_name", "timer_label_color", "date_colors", "custom"}
MetaValues == {"v1", "v2"}
Metas == UNION {[S -> MetaValues] : S \in SUBSET MetaKeys}

FileTaskDocs ==
    {<<>>, <<DefaultTask(Titles[1])>>,
     <<RawTask(Titles[1], 1, TRUE, Num(1), None, FALSE, <<>>), DefaultTask(Titles[2])>>}

FileDocs ==
    {FileObject(m, d) : m \in Metas, d \in FileTaskDocs}
        \cup {FileList(d) : d \in FileTaskDocs}
        \cup {FileScalar, FileInvalid, FileMissing}

\* Tasks files at the start of the runs whose saves are followed step by step.
SaveDocs ==
    {FileMissing, FileObject(NoMeta, <<>>),
     FileObject([k \in {"custom"} |-> "v1"], <<DefaultTask(Titles[1])>>)}

\* Tasks files at the start of the runs that follow the changed flag: no
\* file, a value save_tasks cannot write over, and one task with an armed alarm.
DirtyFiles ==
    {FileMissing, FileScalar,
     FileObject(NoMeta, <<RawTask(Titles[1], 0, FALSE, None, None, FALSE,
                                  <<RawAlarm("a1", 2, "beep", TRUE)>>)>>)}

\* The file offered to the import dialog in those runs.
DirtyImports == {<<RawTask(Titles[2], 0, TRUE, Num(1), None, FALSE, <<>>)>>}

\* Documents of one task with a subtask, directly under it or one level
\* deeper: the subtask's timer stopped or running, with or without a start
\* time, its alarms none, one without target, or one armed for a future time.
SubtaskAlarms ==
    {<<>>, <<RawAlarm("a1", 0, "beep", TRUE)>>, <<RawAlarm("a1", MaxTime + 1, "beep", TRUE)>>}

Subtasks ==
    {RawTask(Titles[2], 0, running, start, None, FALSE, alarms) :
        running \in BOOLEAN, start \in {None, Num(1)}, alarms \in SubtaskAlarms}

WithSubtask(task, sub) == [task EXCEPT !.subtasks = <<sub>>]

SubtaskDocs ==
    {<<WithSubtask(DefaultTask(Titles[1]), sub)>> : sub \in Subtasks} \cup
    {<<WithSubtask(DefaultTask(Titles[1]), WithSubtask(DefaultTask(Titles[3]), sub))>> :
        sub \in Subtasks}

\* Documents of two tasks, one of them with an alarm armed for a future time.
ArmedTask(title) ==
    RawTask(title, 0, FALSE, None, None, FALSE, <<RawAlarm("a1", MaxTime + 1, "beep", TRUE)>>)

ShiftDocs ==
    {<<ArmedTask(Titles[1]), DefaultTask(Titles[2])>>,
     <<DefaultTask(Titles[1]), ArmedTask(Titles[2])>>}

\* Tasks files at the start of the runs in which colours are changed.
ColorFiles ==
    {FileMissing, FileList(<<DefaultTask(Titles[1])>>), FileObject(NoMeta, <<>>),
     FileObject([k \in {"date_colors"} |-> "v1"], <<DefaultTask(Titles[1])>>)}

\* Tasks files of the runs without user action: each list of records as an
\* object, as a bare list and as text that does not parse; one list has an
\* entry that is not an object.
KeepTaskDocs == FileTaskDocs \cup {<<NotADict, DefaultTask(Titles[1])>>}

KeepFiles ==
    {FileObject(NoMeta, d) : d \in KeepTaskDocs}
        \cup {FileList(d) : d \in KeepTaskDocs}
        \cup {FileDamaged(d) : d \in KeepTaskDocs}
        \cup {FileScalar, FileMissing}

-----------------------------------------------------------------------------
(* Specification of the timer engine *)

Init ==
    /\ tasks = <<>>
    /\ selected_index = NoSelection
    /\ tasks_changed = FALSE
    /\ scheduled_alarms = {}
    /\ now \in Times
    /\ sound_files = SoundNames
    /\ pc = "start"
    /\ disk = Untracked
    /\ notified = {}
    /\ temp_file = Untracked
    /\ platform = "linux"
    /\ settings = DefaultSettings

Next ==
    \/ LoadTasks(TimerDocs)
    \/ CheckAndResumeTimers
    \/ ReschedulePendingAlarms
    \/ Tick
    \/ \E index \in Indexes : StartTimer(index)
    \/ \E index \in Indexes : StopTimer(index)
    \/ \E index \in Indexes : ResetTimer(index)
    \/ \E index \in Indexes : SelectTask(index)
    \/ MarkAsCompletedGui
    \/ DoImport(ImportDocs)

Spec == Init /\ [][Next]_vars

-----------------------------------------------------------------------------
(* Specification of the alarm scheduler *)

TargetInputs == {2, MaxTime + 1}
SoundInputs == {LostSound} \cup SoundNames

NextAlarm ==
    \/ LoadTasks(AlarmDocs)
    \/ CheckAndResumeTimers
    \/ ReschedulePendingAlarms
    \/ Tick
    \/ \E f \in SoundNames : RemoveSoundFile(f)
    \/ \E index \in Indexes : \E target \in TargetInputs : \E sound \in SoundInputs :
          SaveAlarm(index, target, sound)

SpecAlarm == Init /\ [][NextAlarm]_vars

-----------------------------------------------------------------------------
(* Specification of the startup pass over documents with wrongly typed alarms *)

NextRearm ==
    \/ LoadTasks(MistypedDocs)
    \/ CheckAndResumeTimers
    \/ ReschedulePendingAlarms
    \/ Tick
    \/ \E f \in SoundNames : RemoveSoundFile(f)

SpecRearm == Init /\ [][NextRearm]_vars

-----------------------------------------------------------------------------
(* Specification of the alarm life cycle, across restarts *)

InitLife ==
    /\ tasks = <<>>
    /\ selected_index = NoSelection
    /\ tasks_changed = FALSE
    /\ scheduled_alarms = {}
    /\ now \in Times
    /\ sound_files = SoundNames
    /\ pc = "start"
    /\ disk \in {FileObject(NoMeta, d) : d \in LifeDocs}
    /\ notified = {}
    /\ temp_file = FileMissing
    /\ platform = "linux"
    /\ settings = DefaultSettings

IdInputs == {"a1", "a2", NoId}

NextLife ==
    \/ LoadTasksFile
    \/ CheckAndResumeTimers
    \/ ReschedulePendingAlarms
    \/ Tick
    \/ \E f \in SoundNames : RemoveSoundFile(f)
    \/ \E e \in scheduled_alarms : \E plays \in BOOLEAN : TriggerAlarmAction(e, plays)
    \/ \E alarm_id \in notified : DismissAction(alarm_id)
    \/ \E index \in Indexes : \E alarm_id \in IdInputs : DeleteAlarm(index, alarm_id)
    \/ \E index \in Indexes : DeleteTask(index)
    \/ OnStop

SpecLife == InitLife /\ [][NextLife]_vars

-----------------------------------------------------------------------------
(* Specification of renaming *)

TitleInputs == {Titles[1], Titles[2], Titles[3], NoTitle}

NextTitle ==
    \/ LoadTasks(TitleDocs)
    \/ CheckAndResumeTimers
    \/ ReschedulePendingAlarms
    \/ \E index \in Indexes : SelectTask(index)
    \/ \E new_title \in TitleInputs : ChangeTaskTitleGui(new_title)

SpecTitle == Init /\ [][NextTitle]_vars

-----------------------------------------------------------------------------
(* Specification of the task list, from an empty store *)

EmptyDocs == {<<>>}
ListIndexes == -1..MaxList
Positions == -1..(MaxList + 1)
Directions == {-1, 1}

NextStore ==
    \/ LoadTasks(EmptyDocs)
    \/ CheckAndResumeTimers
    \/ ReschedulePendingAlarms
    \/ \E task_name \in UnusedTitles : AddTask(task_name)
    \/ \E index \in ListIndexes : SelectTask(index)
    \/ \E index \in ListIndexes : DeleteTask(index)
    \/ \E index \in ListIndexes : \E direction \in Directions : MoveTask(index, direction)
    \/ \E from_idx \in ListIndexes : \E to_position \in Positions :
          InsertTaskAtPosition(from_idx, to_position)

SpecStore == Init /\ [][NextStore]_vars

-----------------------------------------------------------------------------
(* Specification of the tasks file: startup, saves, shutdown *)

InitFile ==
    /\ tasks = <<>>
    /\ selected_index = NoSelection
    /\ tasks_changed = FALSE
    /\ scheduled_alarms = {}
    /\ now \in Times
    /\ sound_files = SoundNames
    /\ pc = "start"
    /\ disk \in FileDocs
    /\ notified = {}
    /\ temp_file = FileMissing
    /\ platform = "linux"
    /\ settings = DefaultSettings

NextFile ==
    \/ LoadTasksFile
    \/ CheckAndResumeTimers
    \/ ReschedulePendingAlarms
    \/ Tick
    \/ SaveTasksPeriodically
    \/ OnStop

SpecFile == InitFile /\ [][NextFile]_vars

-----------------------------------------------------------------------------
(* Specification of a save that may be cut short *)

InitSave ==
    /\ tasks = <<>>
    /\ selected_index = NoSelection
    /\ tasks_changed = FALSE
    /\ scheduled_alarms = {}
    /\ now \in Times
    /\ sound_files = SoundNames
    /\ pc = "start"
    /\ disk \in SaveDocs
    /\ notified = {}
    /\ temp_file = FileMissing
    /\ platform \in Platforms
    /\ settings = DefaultSettings

SaveTitles == {Titles[1], Titles[2]}

NextSave ==
    \/ LoadTasksFile
    \/ CheckAndResumeTimers
    \/ ReschedulePendingAlarms
    \/ \E task_name \in UnusedTitles \cap SaveTitles : AddTask(task_name)
    \/ \E force \in BOOLEAN : SaveOpenTemp(force)
    \/ SaveDumpTemp
    \/ SaveRemoveOld
    \/ SaveReplace
    \/ ProcessStops

SpecSave == InitSave /\ [][NextSave]_vars

-----------------------------------------------------------------------------
(* Specification of the changed flag: every handler that edits the store, the
   periodic save and the save at exit *)

InitDirty ==
    /\ tasks = <<>>
    /\ selected_index = NoSelection
    /\ tasks_changed = FALSE
    /\ scheduled_alarms = {}
    /\ now \in 1..2
    /\ sound_files = SoundNames
    /\ pc = "start"
    /\ disk \in DirtyFiles
    /\ notified = {}
    /\ temp_file = FileMissing
    /\ platform = "linux"
    /\ settings = DefaultSettings

DirtyTitleInputs == {Titles[3], NoTitle}

\* The user adds a task only while the store holds fewer than MaxTasks tasks.
DirtyNames == IF Len(tasks) < MaxTasks THEN {Titles[2]} \ {tasks[i].task : i \in 1..Len(tasks)} ELSE {}

NextDirty ==
    \/ LoadTasksFile
    \/ CheckAndResumeTimers
    \/ ReschedulePendingAlarms
    \/ \E task_name \in DirtyNames : AddTask(task_name)
    \/ \E index \in Indexes : SelectTask(index)
    \/ \E index \in Indexes : DeleteTask(index)
    \/ \E index \in Indexes : \E direction \in Directions : MoveTask(index, direction)
    \/ \E from_idx \in Indexes : \E to_position \in Indexes :
          InsertTaskAtPosition(from_idx, to_position)
    \/ \E new_title \in DirtyTitleInputs : ChangeTaskTitleGui(new_title)
    \/ \E index \in Indexes : StartTimer(index)
    \/ \E index \in Indexes : StopTimer(index)
    \/ \E index \in Indexes : ResetTimer(index)
    \/ MarkAsCompletedGui
    \/ \E e \in scheduled_alarms : \E plays \in BOOLEAN : TriggerAlarmAction(e, plays)
    \/ \E alarm_id \in notified : DismissAction(alarm_id)
    \/ \E index \in Indexes : \E alarm_id \in IdInputs : DeleteAlarm(index, alarm_id)
    \/ DoImport(DirtyImports)
    \/ SaveTasksPeriodically
    \/ OnStop

SpecDirty == InitDirty /\ [][NextDirty]_vars

-----------------------------------------------------------------------------
(* Specification of the startup over documents with subtasks *)

NextSubtasks ==
    \/ LoadTasks(SubtaskDocs)
    \/ CheckAndResumeTimers
    \/ ReschedulePendingAlarms
    \/ Tick

SpecSubtasks == Init /\ [][NextSubtasks]_vars

-----------------------------------------------------------------------------
(* Specification of an armed alarm whose task changes place in the list *)

ShiftTitles == {Titles[3]}

\* The file offered to the import dialog: one task without alarms.
ShiftImports == {<<DefaultTask(Titles[1])>>}

NextShift ==
    \/ LoadTasks(ShiftDocs)
    \/ CheckAndResumeTimers
    \/ ReschedulePendingAlarms
    \/ Tick
    \/ \E task_name \in UnusedTitles \cap ShiftTitles : AddTask(task_name)
    \/ \E index \in ListIndexes : SelectTask(index)
    \/ \E index \in ListIndexes : DeleteTask(index)
    \/ \E index \in ListIndexes : \E direction \in Directions : MoveTask(index, direction)
    \/ \E from_idx \in ListIndexes : \E to_position \in Positions :
          InsertTaskAtPosition(from_idx, to_position)
    \/ \E e \in scheduled_alarms : \E plays \in BOOLEAN : TriggerAlarmAction(e, plays)
    \/ \E alarm_id \in notified : DismissAction(alarm_id)
    \/ \E index \in ListIndexes : \E alarm_id \in IdInputs : DeleteAlarm(index, alarm_id)
    \/ DoImport(ShiftImports)

SpecShift == Init /\ [][NextShift]_vars

-----------------------------------------------------------------------------
(* Specification of timers and completion on tasks created in the application *)

CreatedTitles == {Titles[1], Titles[2]}

NextCreated ==
    \/ LoadTasks(EmptyDocs)
    \/ CheckAndResumeTimers
    \/ ReschedulePendingAlarms
    \/ Tick
    \/ \E task_name \in UnusedTitles \cap CreatedTitles : AddTask(task_name)
    \/ \E index \in Indexes : SelectTask(index)
    \/ \E index \in Indexes : StartTimer(index)
    \/ \E index \in Indexes : StopTimer(index)
    \/ \E index \in Indexes : ResetTimer(index)
    \/ MarkAsCompletedGui
    \/ \E index \in Indexes : DeleteTask(index)
    \/ \E index \in Indexes : \E direction \in Directions : MoveTask(index, direction)
    \/ \E from_idx \in Indexes : \E to_position \in Indexes :
          InsertTaskAtPosition(from_idx, to_position)

SpecCreated == Init /\ [][NextCreated]_vars

-----------------------------------------------------------------------------
(* Specification of the colour settings *)

InitColor ==
    /\ tasks = <<>>
    /\ selected_index = NoSelection
    /\ tasks_changed = FALSE
    /\ scheduled_alarms = {}
    /\ now \in Times
    /\ sound_files = SoundNames
    /\ pc = "start"
    /\ disk \in ColorFiles
    /\ notified = {}
    /\ temp_file = FileMissing
    /\ platform = "linux"
    /\ settings = DefaultSettings

NextColor ==
    \/ LoadTasksFile
    \/ CheckAndResumeTimers
    \/ ReschedulePendingAlarms
    \/ \E key \in ColorKeys : \E value \in MetaValues : SetColor(key, value)
    \/ SaveTasksPeriodically
    \/ OnStop

SpecColor == InitColor /\ [][NextColor]_vars

-----------------------------------------------------------------------------
(* Specification of runs without user action: startup, saves, shutdown *)

InitKeep ==
    /\ tasks = <<>>
    /\ selected_index = NoSelection
    /\ tasks_changed = FALSE
    /\ scheduled_alarms = {}
    /\ now \in Times
    /\ sound_files = SoundNames
    /\ pc = "start"
    /\ disk \in KeepFiles
    /\ notified = {}
    /\ temp_file = FileMissing
    /\ platform = "linux"
    /\ settings = DefaultSettings

SpecKeep == InitKeep /\ [][NextFile]_vars

-----------------------------------------------------------------------------
(* Properties of the timer engine *)

Running == pc = "running"

InvariantPairing(task) ==
    task.timer_running <=> (IsNumber(task.start_time_unix) /\ task.start_time_unix.n > 0)

\* C1: after load_tasks and check_and_resume_timers every task has
\* timer_running = true exactly when start_time_unix is a number > 0.
C1_PairingAfterReconcile ==
    pc = "resumed" => \A i \in 1..Len(tasks) : InvariantPairing(tasks[i])

\* C2: check_and_resume_timers at time N on a task running since T < N with
\* timer S leaves timer = S + (N - T), start_time_unix = N, timer_running = true
\* and sets the dirty flag.
C2_ReconcileFoldsGap ==
    [][(pc = "loaded" /\ pc' = "resumed") =>
        \A i \in 1..Len(tasks) :
            (/\ tasks[i].timer_running
             /\ IsNumber(tasks[i].start_time_unix)
             /\ now > tasks[i].start_time_unix.n)
            => /\ tasks'[i].timer = tasks[i].timer + (now - tasks[i].start_time_unix.n)
               /\ tasks'[i].start_time_unix = Num(now)
               /\ tasks'[i].timer_running
               /\ tasks_changed']_vars

C2_Witness ==
    /\ pc = "resumed"
    /\ tasks_changed
    /\ \E i \in 1..Len(tasks) :
        /\ tasks[i].timer_running
        /\ tasks[i].start_time_unix = Num(now)
        /\ tasks[i].timer = MaxTime

\* C3: stop_timer on a task that is not running, and start_timer on a task that
\* is running, change no task and do not set the dirty flag, whatever the clock
\* reads at the call.
C3_StopStartIdempotent ==
    Running =>
        \A index \in Indexes : \A t \in Times :
            ValidIndex(tasks, index) =>
                /\ ~tasks[index + 1].timer_running =>
                      (stop_timer(tasks, index, t) = tasks /\ ~StopTimerActs(tasks, index))
                /\ tasks[index + 1].timer_running =>
                      (start_timer(tasks, index, t) = tasks /\ ~StartTimerActs(tasks, index))

C3_Witness ==
    /\ Running
    /\ \E i \in 1..Len(tasks) :
        /\ tasks[i].timer_running
        /\ ~tasks[i].completed
        /\ IsNumber(tasks[i].start_time_unix)
        /\ tasks[i].start_time_unix.n < now
    /\ \E i \in 1..Len(tasks) : ~tasks[i].timer_running /\ tasks[i].timer > 0

\* The elapsed time stop_timer is specified to add: now - start_time_unix when
\* that is a positive number, else nothing.
SpecifiedElapsed(task, t) ==
    IF IsNumber(task.start_time_unix) /\ t - task.start_time_unix.n > 0
    THEN t - task.start_time_unix.n
    ELSE 0

\* C4: stop_timer on a running task always ends with timer_running = false and
\* start_time_unix = None, the timer increased by the specified elapsed time.
C4_StopAlwaysStops ==
    Running =>
        \A index \in Indexes :
            (ValidIndex(tasks, index) /\ tasks[index + 1].timer_running) =>
                LET after == stop_timer(tasks, index, now)[index + 1]
                IN  /\ ~after.timer_running
                    /\ after.start_time_unix = None
                    /\ after.timer = tasks[index + 1].timer
                                        + SpecifiedElapsed(tasks[index + 1], now)

TimerStep ==
    \/ pc = "loaded" /\ pc' = "resumed"
    \/ \E index \in Indexes : StartTimer(index)
    \/ \E index \in Indexes : StopTimer(index)
    \/ MarkAsCompletedGui

\* C5: no start, stop, completion toggle or reconcile step lowers a task's
\* timer, whichever way the clock moved before it; a reset step that changes a
\* task sets its timer to 0 and touches no other task's timer.
C5_TimerMonotone ==
    [][/\ TimerStep => \A i \in 1..Len(tasks) : tasks'[i].timer >= tasks[i].timer
       /\ \A index \in Indexes :
            (ResetTimer(index) /\ tasks' # tasks) =>
                \A i \in 1..Len(tasks) :
                    tasks'[i].timer = IF i = index + 1 THEN 0 ELSE tasks[i].timer]_vars

C5_Witness ==
    /\ Running
    /\ \E i \in 1..Len(tasks) :
        /\ tasks[i].timer_running
        /\ IsNumber(tasks[i].start_time_unix)
        /\ tasks[i].start_time_unix.n > now
        /\ tasks[i].timer > 0

\* C6: on a stopped, not completed task with timer S, start at T then stop at
\* T + d (d > 0) leaves timer = S + d, stopped, start_time_unix = None; while
\* running the value displayed at t is S + (t - T), once stopped it is the stored
\* timer; 65 seconds format as 00:01:05, fractions truncated, negatives as zero.
C6_StartStopAccumulates ==
    /\ format_timedelta(65 * TicksPerSecond) = "00:01:05"
    /\ format_timedelta(66 * TicksPerSecond - 1) = "00:01:05"
    /\ \A i \in 1..Len(tasks) : \A t \in Times :
          CurrentDisplayValue(tasks[i], t) < 0 =>
              format_timedelta(CurrentDisplayValue(tasks[i], t)) = "00:00:00"
    /\ Running =>
        \A index \in Indexes :
            (/\ ValidIndex(tasks, index)
             /\ ~tasks[index + 1].timer_running
             /\ ~tasks[index + 1].completed) =>
                LET S == tasks[index + 1].timer
                    started == start_timer(tasks, index, now)
                IN  \A t \in Times :
                        /\ CurrentDisplayValue(started[index + 1], t) = S + (t - now)
                        /\ t > now =>
                            LET stopped == stop_timer(started, index, t)[index + 1]
                            IN  /\ stopped.timer = S + (t - now)
                                /\ ~stopped.timer_running
                                /\ stopped.start_time_unix = None
                                /\ \A u \in Times :
                                      CurrentDisplayValue(stopped, u) = stopped.timer

C6_Witness ==
    /\ Running
    /\ tasks_changed
    /\ \E i \in 1..Len(tasks) :
        /\ ~tasks[i].timer_running
        /\ ~tasks[i].completed
        /\ tasks[i].start_time_unix = None
        /\ tasks[i].timer = MaxTimer
        /\ format_timedelta(CurrentDisplayValue(tasks[i], now))
              = "00:00:" \o Pad02(MaxTimer \div TicksPerSecond)

\* C7: toggling completion of a not completed task whose timer runs leaves it
\* completed, stopped, start_time_unix = None, the elapsed time folded into
\* timer; toggling a completed task back leaves it not completed, timer as is.
C7_CompletionStopsTimer ==
    (Running /\ MarkAsCompletedActs(tasks, selected_index)) =>
        LET before == tasks[selected_index + 1]
            after == mark_as_completed_gui(tasks, selected_index, now)[selected_index + 1]
        IN  /\ (~before.completed /\ before.timer_running) =>
                  /\ after.completed
                  /\ ~after.timer_running
                  /\ after.start_time_unix = None
                  /\ after.timer = before.timer + SpecifiedElapsed(before, now)
            /\ before.completed => after = [before EXCEPT !.completed = FALSE]

\* C8: start_timer and reset_timer on a completed task, and start, stop and
\* reset on an index out of range, change nothing and set no dirty flag;
\* reset_timer on a valid, not completed task sets timer = 0, timer_running =
\* false, start_time_unix = None, running or not.
C8_GuardsAndReset ==
    Running =>
        \A index \in Indexes : \A t \in Times :
            /\ (ValidIndex(tasks, index) /\ tasks[index + 1].completed) =>
                  /\ start_timer(tasks, index, t) = tasks
                  /\ ~StartTimerActs(tasks, index)
                  /\ reset_timer(tasks, index) = tasks
                  /\ ~ResetTimerActs(tasks, index)
            /\ ~ValidIndex(tasks, index) =>
                  /\ start_timer(tasks, index, t) = tasks
                  /\ stop_timer(tasks, index, t) = tasks
                  /\ reset_timer(tasks, index) = tasks
                  /\ ~StartTimerActs(tasks, index)
                  /\ ~StopTimerActs(tasks, index)
                  /\ ~ResetTimerActs(tasks, index)
            /\ (ValidIndex(tasks, index) /\ ~tasks[index + 1].completed) =>
                  /\ ResetTimerActs(tasks, index)
                  /\ reset_timer(tasks, index) =
                        [tasks EXCEPT ![index + 1] =
                            [@ EXCEPT !.timer = 0, !.timer_running = FALSE,
                                      !.start_time_unix = None]]

C8_Witness ==
    /\ Running
    /\ \E i \in 1..Len(tasks) : tasks[i].completed /\ tasks[i].timer > 0
    /\ \E i \in 1..Len(tasks) :
        /\ ~tasks[i].completed
        /\ tasks[i].timer = 0
        /\ ~tasks[i].timer_running
        /\ tasks[i].start_time_unix = None
    /\ tasks_changed

-----------------------------------------------------------------------------
(* Properties of the alarm scheduler *)

\* C9: _save_alarm with a target <= now, a sound file that does not exist or a
\* task index out of range appends no alarm to any task and leaves
\* scheduled_alarms as it is; with a future target and an existing sound file it
\* appends exactly one entry, enabled and carrying the new id, to that task and
\* registers a callback for that id.
C9_CreateAlarm ==
    Running =>
        \A task_index \in Indexes : \A target \in TargetInputs : \A sound \in SoundInputs :
            \A alarm_id \in FreshIds :
                LET r == save_alarm(tasks, scheduled_alarms, sound_files, now,
                                    task_index, target, sound, alarm_id)
                IN  IF target <= now \/ sound \notin sound_files
                                     \/ ~ValidIndex(tasks, task_index)
                    THEN r.tasks = tasks /\ r.sched = scheduled_alarms
                    ELSE /\ r.tasks =
                              [tasks EXCEPT ![task_index + 1] =
                                  [@ EXCEPT !.alarms =
                                      Append(@, RawAlarm(alarm_id, target, sound, TRUE))]]
                         /\ r.sched = scheduled_alarms \cup {Handle(alarm_id, task_index)}
                         /\ r.changed

C9_Witness ==
    /\ Running
    /\ tasks_changed
    /\ now >= 2
    /\ \E i \in 1..Len(tasks) : \E k \in 1..Len(tasks[i].alarms) :
        /\ k = Len(tasks[i].alarms)
        /\ tasks[i].alarms[k] = RawAlarm("a3", MaxTime + 1, "beep", TRUE)
        /\ Handle("a3", i - 1) \in scheduled_alarms

CannotArm(a, files, t) ==
    \/ MissingData(a)
    \/ TargetRaises(a)
    \/ a.sound_file \notin files
    \/ a.target_timestamp_unix <= t

\* C11: _reschedule_pending_alarms always runs to its end; it disables every
\* enabled alarm it cannot arm (missing or wrongly typed fields, missing sound
\* file, past target) and leaves every other enabled alarm, on the same task or
\* on later ones, enabled with a callback in scheduled_alarms.
C11_RearmTolerant ==
    [][(pc = "resumed" /\ pc' # "resumed") =>
        /\ pc' = "running"
        /\ \A i \in 1..Len(tasks) : \A k \in 1..Len(tasks[i].alarms) :
            LET old == tasks[i].alarms[k]
                new == tasks'[i].alarms[k]
            IN  old.enabled =>
                    IF CannotArm(old, sound_files, now)
                    THEN ~new.enabled
                    ELSE new.enabled /\ Handle(new.id, i - 1) \in scheduled_alarms']_vars

-----------------------------------------------------------------------------
(* Properties of the alarm life cycle *)

\* Ids a callback can carry: _schedule_alarm registers none for a falsy id.
CallbackIds == {"a1", "a2"}

AlarmsOf(ts) == UNION {{ts[i].alarms[k] : k \in 1..Len(ts[i].alarms)} : i \in 1..Len(ts)}
EnabledIds(ts) == {a.id : a \in {x \in AlarmsOf(ts) : x.enabled}}
DisabledIds(ts) == {a.id : a \in {x \in AlarmsOf(ts) : ~x.enabled}}

\* The callback (task_index, alarm_id) has nothing left to fire for.
Stale(ts, task_index, alarm_id) ==
    \/ ~ValidIndex(ts, task_index)
    \/ \A k \in 1..Len(ts[task_index + 1].alarms) :
          ts[task_index + 1].alarms[k].id # alarm_id
    \/ \E k \in 1..Len(ts[task_index + 1].alarms) :
          /\ ts[task_index + 1].alarms[k].id = alarm_id
          /\ ~ts[task_index + 1].alarms[k].enabled

\* C12: a callback whose task index is out of range, whose id is on no alarm of
\* the task, or whose alarm is disabled opens no alarm popup, changes no task or
\* alarm field and does not mark the tasks changed; it only removes the entry
\* of its id from scheduled_alarms.
C12_StaleCallbackSilent ==
    Running =>
        \A task_index \in Indexes : \A alarm_id \in CallbackIds : \A plays \in BOOLEAN :
            LET r == trigger_alarm_action(tasks, scheduled_alarms, sound_files,
                                          task_index, alarm_id, plays)
            IN  Stale(tasks, task_index, alarm_id) =>
                    /\ ~r.notifies
                    /\ r.tasks = tasks
                    /\ ~r.changed
                    /\ r.sched = {e \in scheduled_alarms : e.alarm_id # alarm_id}

\* A callback is pending for a task index that no longer exists, and another
\* alarm on record is disabled.
C12_Witness ==
    /\ Running
    /\ notified = {}
    /\ \E e \in scheduled_alarms : ~ValidIndex(tasks, e.task_index)
    /\ DisabledIds(tasks) \cap CallbackIds # {}

Records == IF pc = "start" THEN FileTasks(disk) ELSE tasks

\* C14: an alarm that is disabled is not enabled after any later step, the
\* forced save at shutdown and the load and startup pass of the next run
\* included, and no step registers a callback for its id; _save_alarm for a new
\* alarm leaves disabled alarms disabled and unregistered; an alarm popup opens
\* only for an alarm that was enabled and had a callback.
C14_DisabledIsFinal ==
    /\ [][\A alarm_id \in CallbackIds :
            /\ alarm_id \in DisabledIds(Records) => alarm_id \notin EnabledIds(Records')
            /\ (/\ alarm_id \in ScheduledIds(scheduled_alarms')
                /\ alarm_id \notin ScheduledIds(scheduled_alarms))
                   => (alarm_id \notin DisabledIds(Records) /\ alarm_id \in EnabledIds(tasks'))
            /\ (alarm_id \in notified' /\ alarm_id \notin notified)
                   => (/\ alarm_id \in ScheduledIds(scheduled_alarms)
                       /\ alarm_id \in EnabledIds(tasks))]_vars
    /\ [](Running =>
            \A task_index \in Indexes : \A target \in TargetInputs : \A sound \in SoundInputs :
                \A alarm_id \in FreshIds :
                    LET r == save_alarm(tasks, scheduled_alarms, sound_files, now,
                                        task_index, target, sound, alarm_id)
                    IN  /\ DisabledIds(tasks) \subseteq DisabledIds(r.tasks)
                        /\ EnabledIds(r.tasks) \cap DisabledIds(tasks) = {}
                        /\ ScheduledIds(r.sched) \cap DisabledIds(tasks) =
                              ScheduledIds(scheduled_alarms) \cap DisabledIds(tasks))

\* After the startup pass of a later run (the file was written at shutdown,
\* after the first task was deleted) a disabled alarm is on record that would
\* be armed if it were enabled: its target is ahead and its sound file exists.
C14_Witness ==
    /\ Running
    /\ \E a \in AlarmsOf(tasks) :
        /\ ~a.enabled
        /\ a.id \in CallbackIds
        /\ a.target_timestamp_unix > now
        /\ a.sound_file \in sound_files
        /\ a.id \notin ScheduledIds(scheduled_alarms)
        /\ a.id \in DisabledIds(FileTasks(disk))
    /\ Len(FileTasks(disk)) = 1
    /\ FileTasks(disk)[1].task = Titles[2]

IdsOf(task) == {task.alarms[k].id : k \in 1..Len(task.alarms)}

\* C15: delete_task on a valid index returns with no callback left for any id
\* of an alarm of the deleted task, and with the callbacks of all other ids
\* still in scheduled_alarms.
C15_DeleteTaskCancels ==
    Running =>
        \A index \in 0..(Len(tasks) - 1) :
            LET r == delete_task(tasks, scheduled_alarms, selected_index, index)
            IN  /\ ~r.raised
                /\ ScheduledIds(r.sched) \cap IdsOf(tasks[index + 1]) = {}
                /\ {e \in scheduled_alarms : e.alarm_id \notin IdsOf(tasks[index + 1])}
                      \subseteq r.sched

\* The entries of alarms whose id differs from alarm_id, in their order.
RECURSIVE KeepOthers(_, _)
KeepOthers(alarms, alarm_id) ==
    IF alarms = <<>> THEN <<>>
    ELSE IF Head(alarms).id = alarm_id THEN KeepOthers(Tail(alarms), alarm_id)
    ELSE <<Head(alarms)>> \o KeepOthers(Tail(alarms), alarm_id)

\* C16: _delete_alarm returns True exactly when the task at a valid index had
\* an entry with the id; then the task's list is the old one without the
\* entries of that id, in order, the other tasks are as before, scheduled_alarms
\* has lost the entry of the id and nothing else, and the tasks are marked
\* changed.  When it returns False, tasks and scheduled_alarms are as before
\* and the tasks are not marked changed.  A second call with the same arguments
\* returns False and changes nothing.
C16_DeleteAlarm ==
    Running =>
        \A task_index \in Indexes : \A alarm_id \in AlarmIds \cup {NoId} :
            LET r == delete_alarm(tasks, scheduled_alarms, task_index, alarm_id)
                again == delete_alarm(r.tasks, r.sched, task_index, alarm_id)
                had == /\ ValidIndex(tasks, task_index)
                       /\ alarm_id \in IdsOf(tasks[task_index + 1])
            IN  /\ r.deleted <=> had
                /\ r.deleted =>
                      /\ r.tasks = [tasks EXCEPT ![task_index + 1].alarms =
                                        KeepOthers(@, alarm_id)]
                      /\ alarm_id \notin IdsOf(r.tasks[task_index + 1])
                      /\ r.sched = {e \in scheduled_alarms : e.alarm_id # alarm_id}
                      /\ r.changed
                /\ ~r.deleted =>
                      (r.tasks = tasks /\ r.sched = scheduled_alarms /\ ~r.changed)
                /\ ~again.deleted
                /\ again.tasks = r.tasks /\ again.sched = r.sched /\ ~again.changed

\* An alarm was deleted from a task that keeps another alarm, whose callback is
\* still pending.
C16_Witness ==
    /\ Running
    /\ tasks_changed
    /\ \E i \in 1..Len(tasks) :
        /\ Len(tasks[i].alarms) = 1
        /\ Handle(tasks[i].alarms[1].id, i - 1) \in scheduled_alarms
        /\ \E b \in AlarmsOf(FileTasks(disk)) :
              b.id \in CallbackIds /\ b.id \notin EnabledIds(tasks) \cup DisabledIds(tasks)
        /\ Len(FileTasks(disk)) = Len(tasks)
        /\ Len(FileTasks(disk)[i].alarms) = 2

-----------------------------------------------------------------------------
(* Properties of the task store *)

C18_InsertAtPosition ==
    Running =>
        \A from_idx \in ListIndexes : \A to_position \in Positions :
            LET r == insert_task_at_position(tasks, selected_index, from_idx, to_position)
                to == IF to_position < 0 THEN 0
                      ELSE IF to_position > Len(tasks) THEN Len(tasks) ELSE to_position
                dest == IF from_idx < to THEN to - 1 ELSE to
            IN  IF ~ValidIndex(tasks, from_idx) \/ to = from_idx \/ to = from_idx + 1
                THEN r.tasks = tasks /\ r.selected = selected_index /\ ~r.changed
                ELSE /\ Len(r.tasks) = Len(tasks)
                     /\ r.tasks[dest + 1] = tasks[from_idx + 1]
                     /\ RemoveAt(r.tasks, dest) = RemoveAt(tasks, from_idx)
                     /\ r.changed
                     /\ IF selected_index = NoSelection THEN r.selected = NoSelection
                        ELSE /\ ValidIndex(r.tasks, r.selected)
                             /\ r.tasks[r.selected + 1] = tasks[selected_index + 1]
                     /\ (Len(tasks) = 5 /\ from_idx = 0 /\ to_position = 3)
                            => r.tasks[3] = tasks[1]

\* Five tasks, added as A to E, after the first one (E) was inserted at
\* position 3 while the one after it (D) was selected.
C18_Witness ==
    /\ Running
    /\ tasks_changed
    /\ [i \in 1..Len(tasks) |-> tasks[i].task] = <<"D", "C", "E", "B", "A">>
    /\ selected_index = 0

\* C19: move_task with a valid index and direction -1 or 1 whose neighbour
\* exists exchanges the task with that neighbour, leaves all other positions
\* as they are and returns index + direction; when index + direction is out of
\* range it returns index and changes neither the order, selected_index nor
\* the dirty flag; with the index out of range it changes nothing.
C19_MoveTask ==
    Running =>
        \A index \in ListIndexes : \A direction \in Directions :
            LET r == move_task(tasks, selected_index, index, direction)
                unchanged == r.tasks = tasks /\ r.selected = selected_index /\ ~r.changed
            IN  IF ~ValidIndex(tasks, index) THEN unchanged
                ELSE IF ~ValidIndex(tasks, index + direction)
                THEN r.result = index /\ unchanged
                ELSE /\ r.result = index + direction
                     /\ Len(r.tasks) = Len(tasks)
                     /\ r.tasks[index + 1] = tasks[index + direction + 1]
                     /\ r.tasks[index + direction + 1] = tasks[index + 1]
                     /\ \A j \in 1..Len(tasks) :
                            j \notin {index + 1, index + direction + 1}
                                => r.tasks[j] = tasks[j]
                     /\ r.changed

\* Three tasks, added as A, B, C, after the last one (A) was moved up.
C19_Witness ==
    /\ Running
    /\ tasks_changed
    /\ [i \in 1..Len(tasks) |-> tasks[i].task] = <<"C", "A", "B">>
    /\ selected_index = 1

-----------------------------------------------------------------------------
(* Properties of the tasks file *)

\* C20: a save that follows the startup load, with nothing but the startup
\* steps in between, writes a document in which every top-level key other than
\* tasks that the file held, known to load_tasks or not, is present with the
\* value it had; so is every such key after any number of runs.
C20_MetaPreserved ==
    [][disk' # disk =>
        /\ disk'.kind = "object"
        /\ disk.kind = "object" =>
              \A k \in DOMAIN disk.meta :
                  k \in DOMAIN disk'.meta /\ disk'.meta[k] = disk.meta[k]]_vars

\* After shutdown the file holds all four keys beside the tasks that the run
\* has loaded, reconciled and written.
C20_Witness ==
    /\ pc = "start"
    /\ disk.kind = "object"
    /\ DOMAIN disk.meta = MetaKeys
    /\ disk.meta["custom"] = "v2"
    /\ Len(disk.tasks) = 2
    /\ disk.tasks[1].titleHistory = <<Titles[1]>>

\* A file operation of a save leaves the tasks file as it was or puts the
\* complete new document in its place, and never takes an existing file away.
SaveStepKeepsFile ==
    pc \in SavingStates =>
        /\ \/ disk' = disk
           \/ disk' = temp_file /\ temp_file.kind = "object"
        /\ disk.kind = "missing" \/ disk'.kind # "missing"

\* C21: whichever file operation of save_tasks the process stops after, the
\* tasks file holds the document it held before the save or the complete new
\* one, and a tasks file that existed still exists.
C21_SaveCrashSafe ==
    [][SaveStepKeepsFile]_vars

\* What save_tasks and _save_alarm would do in the current state: a save that is
\* neither due nor forced leaves the file alone; a save that fails leaves the
\* file and the flag alone; any other save writes the tasks of the store and
\* clears the flag; an alarm that is added sets the flag.
SaveDiscipline ==
    pc = "running" =>
        /\ \A force \in BOOLEAN :
             LET r == save_tasks(disk, tasks, tasks_changed, force)
             IN  /\ (~tasks_changed /\ ~force) => r.file = disk /\ r.changed = tasks_changed
                 /\ SaveFails(disk) => r.file = disk /\ r.changed = tasks_changed
                 /\ (~SaveFails(disk) /\ (tasks_changed \/ force)) =>
                        ~r.changed /\ FileTasks(r.file) = tasks
        /\ \A index \in Indexes : \A target \in TargetInputs : \A sound \in SoundInputs :
             \A alarm_id \in FreshIds :
                LET r == save_alarm(tasks, scheduled_alarms, sound_files, now, index,
                                    target, sound, alarm_id)
                IN  r.tasks # tasks => r.changed

\* A step of the running application: a handler that edits the store leaves
\* the flag set; with the flag clear the file is not written; a step that
\* writes the file leaves the flag clear and the store as it was; the flag stays
\* set while the file cannot be written; the save at exit leaves the tasks of
\* the store in the file.
DirtyStep ==
    /\ (pc # "start" /\ pc' # "start" /\ tasks' # tasks) => tasks_changed'
    /\ (pc = "running" /\ pc' = "running" /\ ~tasks_changed) => disk' = disk
    /\ (pc' = "running" /\ disk' # disk) => (~tasks_changed' /\ tasks' = tasks)
    /\ (pc = "running" /\ SaveFails(disk)) =>
          (disk' = disk /\ (tasks_changed /\ pc' = "running" => tasks_changed'))
    /\ (pc = "running" /\ pc' = "start" /\ ~SaveFails(disk)) => FileTasks(disk') = tasks

\* C22: every operation that edits the store sets the changed flag; a save that
\* is not forced writes nothing while the flag is clear; a successful save
\* clears the flag, a failed one leaves the flag and the tasks as they were; the
\* forced save at exit leaves the file holding the tasks of the store.
C22_DirtyFlag ==
    [](SaveDiscipline) /\ [][DirtyStep]_vars

\* The application was closed after a task was added and moved to the front,
\* and the file holds both tasks in the new order.
C22_Witness ==
    /\ pc = "start"
    /\ disk.kind = "object"
    /\ Len(disk.tasks) = 2
    /\ disk.tasks[1].task = Titles[2]
    /\ disk.tasks[2].task = Titles[1]

\* No subtask below the task, at any depth, has an alarm entry that load_tasks
\* would drop from a top-level task.
RECURSIVE SubtaskAlarmsValid(_)
SubtaskAlarmsValid(task) ==
    \A k \in 1..Len(task.subtasks) :
        /\ \A j \in 1..Len(task.subtasks[k].alarms) : ValidAlarmEntry(task.subtasks[k].alarms[j])
        /\ SubtaskAlarmsValid(task.subtasks[k])

\* No subtask below the task has a running timer without a start time.
RECURSIVE SubtaskTimersPaired(_)
SubtaskTimersPaired(task) ==
    \A k \in 1..Len(task.subtasks) :
        /\ task.subtasks[k].timer_running => IsNumber(task.subtasks[k].start_time_unix)
        /\ SubtaskTimersPaired(task.subtasks[k])

\* Every enabled alarm of a subtask below the task has a pending callback.
RECURSIVE SubtaskAlarmsArmed(_)
SubtaskAlarmsArmed(task) ==
    \A k \in 1..Len(task.subtasks) :
        /\ \A j \in 1..Len(task.subtasks[k].alarms) :
              task.subtasks[k].alarms[j].enabled =>
                 task.subtasks[k].alarms[j].id \in ScheduledIds(scheduled_alarms)
        /\ SubtaskAlarmsArmed(task.subtasks[k])

\* C23: after load every subtask, at every depth, is normalised like a
\* top-level task (no alarm entry without target or sound file); after
\* check_and_resume_timers no subtask has a running timer without a start
\* time; after _reschedule_pending_alarms every enabled alarm of a subtask has a
\* pending callback.
C23_SubtasksNormalised ==
    /\ pc # "start" => \A i \in 1..Len(tasks) : SubtaskAlarmsValid(tasks[i])
    /\ pc \in {"resumed", "running"} => \A i \in 1..Len(tasks) : SubtaskTimersPaired(tasks[i])
    /\ pc = "running" => \A i \in 1..Len(tasks) : SubtaskAlarmsArmed(tasks[i])

\* A callback that opens the ALARM! popup leaves its alarm enabled.
FiredStaysEnabled ==
    \A alarm_id \in notified' \ notified : alarm_id \in EnabledIds(tasks')

\* on_stop writes an alarm whose popup is still open as enabled.
UndismissedIsSavedEnabled ==
    (pc = "running" /\ pc' = "start") =>
        \A alarm_id \in notified :
            alarm_id \in UNION {IdsOf(tasks[i]) : i \in 1..Len(tasks)} =>
                alarm_id \in EnabledIds(FileTasks(disk'))

\* The startup pass disables every enabled alarm whose target is not after the
\* clock reading, arms no callback for it and opens no popup.
PastIsDisabledQuietly ==
    (pc = "resumed" /\ pc' = "running") =>
        \A a \in AlarmsOf(tasks) :
            (a.enabled /\ a.target_timestamp_unix <= now) =>
                /\ a.id \notin EnabledIds(tasks')
                /\ a.id \notin ScheduledIds(scheduled_alarms')
                /\ notified' = {}

\* C24: an alarm that fired and was not dismissed stays enabled and is saved as
\* enabled at exit; the next startup pass, reading a clock at or after the
\* alarm's target, disables it without arming a callback and without a popup.
C24_UndismissedAlarm ==
    [][FiredStaysEnabled /\ UndismissedIsSavedEnabled /\ PastIsDisabledQuietly]_vars

\* After a restart: the file, written by the application at exit, still has
\* alarm a1 enabled, and the startup pass has disabled it in the store without
\* arming it or opening a popup.
C24_Witness ==
    /\ pc = "running"
    /\ disk.kind = "object" /\ Len(disk.tasks) >= 1 /\ Len(tasks) >= 1
    /\ disk.tasks[1].titleHistory # <<>>
    /\ "a1" \in EnabledIds(<<disk.tasks[1]>>)
    /\ "a1" \in DisabledIds(<<tasks[1]>>)
    /\ "a1" \notin ScheduledIds(scheduled_alarms)
    /\ notified = {}
    /\ tasks_changed

\* The alarm of a pending callback is on a task of the store, enabled, with its
\* sound file in place.
CanStillFire(e) ==
    \E a \in AlarmsOf(tasks) : a.id = e.alarm_id /\ a.enabled /\ a.sound_file \in sound_files

\* C25: whatever adds, deletes, moves and inserts have done to the list since an
\* alarm was armed, the callback of an alarm that is still enabled, on a task
\* still in the store and with its sound file in place opens the notification
\* and changes no task.
C25_CallbackFollowsTask ==
    pc = "running" =>
        \A e \in scheduled_alarms :
            CanStillFire(e) =>
                LET r == trigger_alarm_action(tasks, scheduled_alarms, sound_files,
                                              e.task_index, e.alarm_id, TRUE)
                IN  r.notifies /\ r.tasks = tasks

\* C26: every key of scheduled_alarms is the id of an alarm that is on a task of
\* the store and enabled.
C26_NoOrphanHandle ==
    ScheduledIds(scheduled_alarms) \subseteq EnabledIds(tasks)

\* selected_index is None or the index of a task of the store.
SelectionValid ==
    selected_index = NoSelection \/ ValidIndex(tasks, selected_index)

\* delete_task of the selected task clears the selection; delete_task of a task
\* before the selected one leaves the selection on the same task.
DeleteKeepsSelection ==
    (pc = "running" /\ SelectionValid /\ selected_index # NoSelection) =>
        \A index \in 0..(Len(tasks) - 1) :
            LET r == delete_task(tasks, scheduled_alarms, selected_index, index)
            IN  ~r.raised =>
                  /\ index = selected_index => r.selected = NoSelection
                  /\ index < selected_index =>
                        /\ r.selected = selected_index - 1
                        /\ r.tasks[r.selected + 1] = tasks[selected_index + 1]

\* C27: selected_index is None or a valid index in every state that add_task,
\* delete_task, move_task, _insert_task_at_position, select_task and the JSON
\* import lead to; deleting the selected task clears the selection, deleting an
\* earlier one moves it down with its task.
C27_SelectionValid ==
    SelectionValid /\ DeleteKeepsSelection

\* C28: from an empty store, whatever add_task, start_timer, stop_timer,
\* reset_timer, the completion toggle, delete_task, move_task and
\* _insert_task_at_position do, no task is completed with its timer running.
C28_CompletedNotRunning ==
    \A i \in 1..Len(tasks) : ~(tasks[i].completed /\ tasks[i].timer_running)

\* A task that ran and was then marked completed stands next to a running one.
C28_Witness ==
    /\ Len(tasks) = 2
    /\ tasks[1].completed /\ tasks[1].timer > 0 /\ ~tasks[1].timer_running
    /\ tasks[2].timer_running /\ ~tasks[2].completed

\* A handler changed a colour setting and its forced save wrote the file: a load
\* of the file gives the new value of the setting.
ColorChangeIsSaved ==
    (pc = "running" /\ pc' = "running" /\ ~SaveFails(disk)) =>
        \A key \in ColorKeys :
            settings'[key] # settings[key] =>
                LoadedSettings(disk', DefaultSettings)[key] = settings'[key]

\* C29: after a colour setting is changed in memory and the forced save that
\* follows has succeeded, a load of the tasks file returns the changed value.
C29_ColorRoundTrip ==
    [][ColorChangeIsSaved]_vars

\* The record is still there: a task record with its title, any other entry
\* as it was.
SameRecord(before, after) ==
    IF IsDict(before) THEN IsDict(after) /\ after.task = before.task ELSE after = before

RecordsKept(before, after) ==
    \A i \in 1..Len(before) : \E j \in 1..Len(after) : SameRecord(before[i], after[j])

\* C30: with no user action between the startup load and a save, every task
\* record the file held is still in the file after the save, also when a record
\* is malformed or the file does not parse.
C30_LoadSaveKeepsRecords ==
    [][RecordsKept(FileRecords(disk), FileRecords(disk'))]_vars

====
